---------------------------- MODULE Spec2Model ----------------------------
(***************************************************************************)
(* Fire-rescue simulation of src/agentes/bombers.py (random-action         *)
(* variant): the structural model (walls, doors), the fire automaton       *)
(* (ignition roll, explosion rays, shockwaves, flashover), the POI deck,   *)
(* the firefighters' action loop and the turn sequencing of                *)
(* FireRescueModel.step.                                                   *)
(*                                                                         *)
(* Coordinates follow the source: grid_state is indexed [y, x] (row,       *)
(* column), wall and door keys are <<y, x, direction>>, agent positions    *)
(* are mesa positions <<x, y>>.  Directions are 0..3 = N, E, S, W.         *)
(***************************************************************************)
EXTENDS Integers, Sequences, FiniteSets, TLC

(***************************************************************************)
(* Bounds of the model.                                                    *)
(***************************************************************************)
\* Firefighters created (create_agents builds 6; the model keeps the first ones).
NumFirefighters == 1
\* Turns (calls of FireRescueModel.step that are processed) explored.
MaxTurns == 2
\* The ignition roll is drawn among the first MaxIgnition cells of IgnitionRolls.
MaxIgnition == 4
\* A token is placed on one of the first MaxPlacement cells the shuffle may put first.
MaxPlacement == 1
\* Calls of step explored after the run has become terminal.
MaxRefused == 1
\* Iterations of an agent's action loop whose draw is free; from then on the
\* draw is "pass" as soon as "pass" is among the possible actions.
MaxDraws == 2
\* Turns of the planner-driven variant explored (its first turn only moves
\* the agents onto their entries and skips the fire phase).
MaxTurnsStrat2 == 4
\* Iterations of the loop of the planner-driven agent's step explored in one
\* activation.
MaxIters == 12
\* Iterations of that loop, over a run, in which the clock cuts a search short.
MaxExpired == 1

(***************************************************************************)
(* Program constants.                                                      *)
(***************************************************************************)
Rows == 8
Cols == 10
NORTH == 0
EAST == 1
SOUTH == 2
WEST == 3
MaxAp == 8
InitialAp == 4
ApGain == 4
PoiTarget == 3
VictimSupply == 10
FalseAlarmSupply == 5
RescuedToWin == 7
LostToLose == 4
DamageToCollapse == 24

DIRECTIONS == << <<0, -1>>, <<1, 0>>, <<0, 1>>, <<-1, 0>> >>

Dirs == 0..3
FF == 1..NumFirefighters

\* The ambulance (knockdown) cell, a mesa position <<x, y>>.
ambulance_pos == <<9, 0>>

(***************************************************************************)
(* The scenario of the repository (scenario_content), as the parser        *)
(* delivers it.                                                            *)
(***************************************************************************)
WallLines ==
  << << <<1,0,0,1>>, <<1,0,0,0>>, <<1,0,0,0>>, <<1,0,0,0>>, <<1,1,0,0>>, <<0,0,0,1>>, <<1,0,0,0>>, <<1,1,0,0>> >>,
     << <<0,0,0,1>>, <<0,0,0,0>>, <<0,1,1,0>>, <<0,0,1,1>>, <<0,0,1,0>>, <<0,0,1,0>>, <<0,0,1,0>>, <<0,1,0,0>> >>,
     << <<0,0,0,0>>, <<0,0,0,0>>, <<1,0,0,0>>, <<1,0,0,0>>, <<1,0,0,0>>, <<1,1,0,0>>, <<1,0,0,1>>, <<0,1,0,0>> >>,
     << <<0,0,1,1>>, <<0,1,1,0>>, <<0,0,1,1>>, <<0,0,0,0>>, <<0,0,1,0>>, <<0,0,1,0>>, <<0,0,1,0>>, <<0,0,1,0>> >>,
     << <<1,0,0,1>>, <<1,0,0,0>>, <<1,0,0,0>>, <<0,0,0,0>>, <<1,1,0,0>>, <<1,0,0,1>>, <<1,1,0,0>>, <<1,1,0,1>> >>,
     << <<0,0,1,1>>, <<0,0,1,0>>, <<0,0,0,0>>, <<0,0,1,0>>, <<0,0,1,0>>, <<0,0,1,0>>, <<0,0,1,0>>, <<0,1,1,0>> >> >>

\* _parse_grid_walls: the 6x8 wall grid padded by a perimeter ring whose outer
\* sides are walls.  The result is the set of keys <<y, x, d>> whose bit is 1.
parse_grid_walls(lines) ==
  { k \in (0..Rows-1) \X (0..Cols-1) \X Dirs :
      LET y == k[1]
          x == k[2]
          d == k[3]
      IN  IF y \in 1..6 /\ x \in 1..8 THEN lines[y][x][d + 1] = 1
          ELSE \/ (y = 0 /\ x \in 1..8 /\ d = NORTH)
               \/ (y = 7 /\ x \in 1..8 /\ d = SOUTH)
               \/ (x = 0 /\ y \in 1..6 /\ d = WEST)
               \/ (x = 9 /\ y \in 1..6 /\ d = EAST) }

\* parse_scenario on scenario_content: POIs <<row, col, type>>, fires <<row, col>>,
\* doors (pairs of cells), entries <<row, col>>.
scenario_content ==
  [ grid_walls |-> parse_grid_walls(WallLines),
    pois    |-> << <<2, 4, "v">>, <<5, 1, "f">>, <<5, 8, "v">> >>,
    fires   |-> { <<2, 2>>, <<2, 3>>, <<3, 2>>, <<3, 3>>, <<3, 4>>, <<3, 5>>,
                  <<4, 4>>, <<5, 6>>, <<5, 7>>, <<6, 6>> },
    doors   |-> { << <<1, 3>>, <<1, 4>> >>, << <<2, 5>>, <<2, 6>> >>,
                  << <<2, 8>>, <<3, 8>> >>, << <<3, 2>>, <<3, 3>> >>,
                  << <<4, 4>>, <<5, 4>> >>, << <<4, 6>>, <<4, 7>> >>,
                  << <<6, 5>>, <<6, 6>> >>, << <<6, 7>>, <<6, 8>> >> },
    entries |-> << <<1, 6>>, <<3, 1>>, <<4, 8>>, <<6, 3>> >> ]

\* A second scenario text for parse_scenario: the same building, three victims
\* in the corridor east of a burning cell, a fire next to the south wall and a
\* fire below the first entry.
DrillScenario ==
  [ grid_walls |-> scenario_content.grid_walls,
    pois    |-> << <<3, 4, "v">>, <<3, 5, "v">>, <<3, 6, "v">> >>,
    fires   |-> { <<2, 6>>, <<3, 3>>, <<5, 6>>, <<6, 6>> },
    doors   |-> scenario_content.doors,
    entries |-> scenario_content.entries ]

\* A third scenario text: the same building, a victim on the cell east of the
\* first entry, two false alarms in the south corners, two fires in the south.
EntryDrillScenario ==
  [ grid_walls |-> scenario_content.grid_walls,
    pois    |-> << <<1, 7, "v">>, <<6, 1, "f">>, <<6, 8, "f">> >>,
    fires   |-> { <<5, 6>>, <<6, 6>> },
    doors   |-> scenario_content.doors,
    entries |-> scenario_content.entries ]

\* A scenario text whose six wall lines read "1111" in every column: each
\* cell is walled on its four sides.  Two POIs, one fire.
WalledLines == [ y \in 1..6 |-> [ x \in 1..8 |-> <<1, 1, 1, 1>> ] ]

WalledScenario ==
  [ grid_walls |-> parse_grid_walls(WalledLines),
    pois    |-> << <<2, 4, "v">>, <<5, 8, "f">> >>,
    fires   |-> { <<3, 3>> },
    doors   |-> scenario_content.doors,
    entries |-> scenario_content.entries ]

\* The scenarios FireRescueModel is constructed on.
Scenarios == { scenario_content, DrillScenario, EntryDrillScenario, WalledScenario }

(***************************************************************************)
(* Small helpers on Python lists and dicts.                                *)
(***************************************************************************)
Range(s) == { s[i] : i \in DOMAIN s }

\* del d[k]
DictDel(d, k) == [ j \in (DOMAIN d) \ {k} |-> d[j] ]

\* d[k] = v
DictSet(d, k, v) == [ j \in (DOMAIN d) \cup {k} |-> IF j = k THEN v ELSE d[j] ]

\* list.pop(i)
ListPop(s, i) == [ j \in 1..(Len(s) - 1) |-> IF j < i THEN s[j] ELSE s[j + 1] ]

\* "for i, poi in enumerate(pois): if poi[0] == y and poi[1] == x: pois.pop(i); break"
PopPoiAt(s, y, x) ==
  LET hits == { i \in DOMAIN s : s[i][1] = y /\ s[i][2] = x }
  IN  IF hits = {} THEN s
      ELSE ListPop(s, CHOOSE i \in hits : \A j \in hits : i <= j)

(***************************************************************************)
(* ScenarioParser / DirectionHelper.  m is the model object: a record of   *)
(* the fields of FireRescueModel and of its agents.                        *)
(***************************************************************************)
compute_door_positions(doors) ==
  { IF p[1][1] = p[2][1]
      THEN (IF p[1][2] < p[2][2] THEN <<p[1][1], p[1][2], 1>> ELSE <<p[1][1], p[2][2], 1>>)
      ELSE (IF p[1][1] < p[2][1] THEN <<p[1][1], p[1][2], 2>> ELSE <<p[2][1], p[2][2], 2>>)
    : p \in doors }

get_adjacent_position(x, y, direction) ==
  <<x + DIRECTIONS[direction + 1][1], y + DIRECTIONS[direction + 1][2]>>

get_opposite_direction(direction) == (direction + 2) % 4

is_perimeter(x, y) == x = 0 \/ x = Cols - 1 \/ y = 0 \/ y = Rows - 1

InGrid(x, y) == 0 <= y /\ y < Rows /\ 0 <= x /\ x < Cols

get_wall_key(y, x, direction) == <<y, x, direction>>

has_wall(m, y, x, direction) == <<y, x, direction>> \in m.walls

is_wall_destroyed(m, y, x, direction) ==
  LET wall_key == get_wall_key(y, x, direction)
  IN  wall_key \in DOMAIN m.wall_damage /\ m.wall_damage[wall_key] >= 2

can_pass_wall(m, y, x, direction) ==
  ~has_wall(m, y, x, direction) \/ is_wall_destroyed(m, y, x, direction)

is_door(m, y, x, direction) ==
  <<y, x, direction>> \in compute_door_positions(m.scenario.doors)

is_door_open(m, y, x, direction) ==
  LET door_key == get_wall_key(y, x, direction)
      n == get_adjacent_position(x, y, direction)
      opposite_key == get_wall_key(n[2], n[1], get_opposite_direction(direction))
  IN  \/ (door_key \in DOMAIN m.door_states /\ m.door_states[door_key] = "open")
      \/ /\ InGrid(n[1], n[2])
         /\ opposite_key \in DOMAIN m.door_states
         /\ m.door_states[opposite_key] = "open"

\* "None" stands for Python's None.
get_door_state(m, y, x, direction) ==
  LET door_key == <<y, x, direction>>
  IN  IF door_key \notin compute_door_positions(m.scenario.doors) THEN "None"
      ELSE IF door_key \in DOMAIN m.door_states THEN m.door_states[door_key]
      ELSE "destroyed"

is_entry(m, x, y) == <<y, x>> \in Range(m.scenario.entries)

\* damage_wall with line 539 left out: the neighbour's mirrored bit stays set.
damage_wall_OneSided(m, y, x, direction) ==
  LET wall_key == get_wall_key(y, x, direction)
      hits == IF wall_key \notin DOMAIN m.wall_damage THEN 1
              ELSE m.wall_damage[wall_key] + 1
      n == get_adjacent_position(x, y, direction)
      opposite_key == get_wall_key(n[2], n[1], get_opposite_direction(direction))
      m1 == [m EXCEPT !.wall_damage = DictSet(@, wall_key, hits),
                      !.damage_counters = @ + 1]
  IN  IF hits >= 2
        THEN [ destroyed |-> TRUE,
               m |-> IF InGrid(n[1], n[2])
                       THEN [m1 EXCEPT !.walls = @ \ {wall_key},
                                       !.wall_damage = DictSet(@, opposite_key, hits)]
                       ELSE [m1 EXCEPT !.walls = @ \ {wall_key}] ]
        ELSE [ destroyed |-> FALSE, m |-> m1 ]

\* damage_wall: the model after the hit, and the value returned (destroyed or not).
damage_wall(m, y, x, direction) ==
  LET wall_key == get_wall_key(y, x, direction)
      hits == IF wall_key \notin DOMAIN m.wall_damage THEN 1
              ELSE m.wall_damage[wall_key] + 1
      n == get_adjacent_position(x, y, direction)
      opposite_direction == get_opposite_direction(direction)
      opposite_key == get_wall_key(n[2], n[1], opposite_direction)
      m1 == [m EXCEPT !.wall_damage = DictSet(@, wall_key, hits),
                      !.damage_counters = @ + 1]
  IN  IF hits >= 2
        THEN [ destroyed |-> TRUE,
               m |-> IF InGrid(n[1], n[2])
                       THEN [m1 EXCEPT !.walls = @ \ {wall_key, opposite_key},
                                       !.wall_damage = DictSet(@, opposite_key, hits)]
                       ELSE [m1 EXCEPT !.walls = @ \ {wall_key}] ]
        ELSE [ destroyed |-> FALSE, m |-> m1 ]


(***************************************************************************)
(* GameMechanics: the fire automaton.                                      *)
(***************************************************************************)
\* The victim on a cell set on fire counted lost and left on the cell.
LoseVictim_Stays(m, y, x) ==
  IF <<y, x>> \in DOMAIN m.poi /\ m.poi[<<y, x>>] = "v"
    THEN [m EXCEPT !.victims_lost = @ + 1]
    ELSE m

\* "if cell['poi'] == 'v': ..." : the victim on <<y, x>> is lost.
LoseVictim(m, y, x) ==
  IF <<y, x>> \in DOMAIN m.poi /\ m.poi[<<y, x>>] = "v"
    THEN [m EXCEPT !.poi = DictDel(@, <<y, x>>),
                   !.victims_lost = @ + 1,
                   !.scenario.pois = PopPoiAt(@, y, x)]
    ELSE m

\* The door keyed <<y, x, direction>> is deleted from door_states if it is a live door.
DestroyDoorKey(m, door) ==
  IF door \in compute_door_positions(m.scenario.doors) /\ door \in DOMAIN m.door_states
    THEN [m EXCEPT !.door_states = DictDel(@, door)]
    ELSE m

\* shockwave with "stopped = True" left out after a cell is set on fire.
RECURSIVE shockwave_KeepsGoing(_, _, _, _)
shockwave_KeepsGoing(m, row, col, direction) ==
  LET x == col + DIRECTIONS[direction + 1][1]
      y == row + DIRECTIONS[direction + 1][2]
      door_key == <<row, col, direction>>
      wall_key == get_wall_key(row, col, direction)
      isDoor == door_key \in compute_door_positions(m.scenario.doors)
      afterDoor == IF door_key \in DOMAIN m.door_states /\ m.door_states[door_key] = "cerrada"
                     THEN [m EXCEPT !.door_states = DictDel(@, door_key)]
                     ELSE m
      hitsWall == ~isDoor /\ has_wall(m, row, col, direction)
                    /\ ~is_wall_destroyed(m, row, col, direction)
      hit == damage_wall(m, row, col, direction).m
      m1 == IF isDoor THEN afterDoor ELSE IF hitsWall THEN hit ELSE m
      m2 == LoseVictim(m1, y, x)
  IN  IF ~InGrid(x, y) THEN m
      ELSE IF hitsWall /\ hit.wall_damage[wall_key] < 2 THEN hit
      ELSE IF is_perimeter(x, y) THEN m1
      ELSE shockwave_KeepsGoing([m2 EXCEPT !.fire = @ \cup {<<y, x>>},
                                           !.smoke = @ \ {<<y, x>>}],
                                y, x, direction)

\* shockwave: the loop, entered with the ray standing on <<x, y>>.
RECURSIVE shockwave(_, _, _, _)
shockwave(m, row, col, direction) ==
  LET x == col + DIRECTIONS[direction + 1][1]
      y == row + DIRECTIONS[direction + 1][2]
      door_key == <<row, col, direction>>
      wall_key == get_wall_key(row, col, direction)
      isDoor == door_key \in compute_door_positions(m.scenario.doors)
      \* a door in the path is removed only in the state "cerrada"
      afterDoor == IF door_key \in DOMAIN m.door_states /\ m.door_states[door_key] = "cerrada"
                     THEN [m EXCEPT !.door_states = DictDel(@, door_key)]
                     ELSE m
      hitsWall == ~isDoor /\ has_wall(m, row, col, direction)
                    /\ ~is_wall_destroyed(m, row, col, direction)
      hit == damage_wall(m, row, col, direction).m
      m1 == IF isDoor THEN afterDoor ELSE IF hitsWall THEN hit ELSE m
      m2 == LoseVictim(m1, y, x)
  IN  IF ~InGrid(x, y) THEN m
      ELSE IF hitsWall /\ hit.wall_damage[wall_key] < 2 THEN hit
      ELSE IF is_perimeter(x, y) THEN m1
      ELSE IF <<y, x>> \in m2.fire THEN shockwave(m2, y, x, direction)
      ELSE [m2 EXCEPT !.fire = @ \cup {<<y, x>>}, !.smoke = @ \ {<<y, x>>}]

\* The ray loop with "if not wall_destroyed: break" left out: a wall that is
\* only damaged does not stop the ray.
RECURSIVE ExplosionRay_NoStop(_, _, _, _)
ExplosionRay_NoStop(m, x, y, direction) ==
  LET new_x == x + DIRECTIONS[direction + 1][1]
      new_y == y + DIRECTIONS[direction + 1][2]
      m1 == DestroyDoorKey(m, <<y, x, direction>>)
      wall == has_wall(m1, y, x, direction)
      wall_destroyed == is_wall_destroyed(m1, y, x, direction)
      hit == damage_wall(m1, y, x, direction)
      m2 == IF wall /\ ~wall_destroyed THEN hit.m ELSE m1
      m3 == LoseVictim(m2, new_y, new_x)
      c == <<new_y, new_x>>
  IN  IF ~InGrid(new_x, new_y) THEN m
      ELSE IF is_perimeter(new_x, new_y) THEN m
      ELSE IF c \in m3.smoke
        THEN ExplosionRay_NoStop([m3 EXCEPT !.smoke = @ \ {c}, !.fire = @ \cup {c}],
                                 new_x, new_y, direction)
      ELSE IF c \notin m3.fire
        THEN ExplosionRay_NoStop([m3 EXCEPT !.fire = @ \cup {c}], new_x, new_y, direction)
      ELSE shockwave(m3, new_y, new_x, direction)

\* propagate_explosion: the ray loop, standing on <<x, y>>.
RECURSIVE ExplosionRay(_, _, _, _)
ExplosionRay(m, x, y, direction) ==
  LET new_x == x + DIRECTIONS[direction + 1][1]
      new_y == y + DIRECTIONS[direction + 1][2]
      m1 == DestroyDoorKey(m, <<y, x, direction>>)
      wall == has_wall(m1, y, x, direction)
      wall_destroyed == is_wall_destroyed(m1, y, x, direction)
      hit == damage_wall(m1, y, x, direction)
      m2 == IF wall /\ ~wall_destroyed THEN hit.m ELSE m1
      m3 == LoseVictim(m2, new_y, new_x)
      c == <<new_y, new_x>>
  IN  IF ~InGrid(new_x, new_y) THEN m
      ELSE IF is_perimeter(new_x, new_y) THEN m
      ELSE IF wall /\ ~wall_destroyed /\ ~hit.destroyed THEN m2
      ELSE IF c \in m3.smoke
        THEN ExplosionRay([m3 EXCEPT !.smoke = @ \ {c}, !.fire = @ \cup {c}],
                          new_x, new_y, direction)
      ELSE IF c \notin m3.fire
        THEN ExplosionRay([m3 EXCEPT !.fire = @ \cup {c}], new_x, new_y, direction)
      ELSE shockwave(m3, new_y, new_x, direction)

\* The doors keyed on the origin cell are destroyed when the north ray is cast.
RECURSIVE DestroyOriginDoors(_, _, _, _)
DestroyOriginDoors(m, row, col, dir_check) ==
  IF dir_check > 3 THEN m
  ELSE DestroyOriginDoors(DestroyDoorKey(m, <<row, col, dir_check>>), row, col, dir_check + 1)

propagate_explosion(m, row, col, direction) ==
  ExplosionRay(IF direction = NORTH THEN DestroyOriginDoors(m, row, col, 0) ELSE m,
               col, row, direction)

\* "for direction in range(4): propagate_explosion(...)"
RECURSIVE Explosion(_, _, _, _)
Explosion(m, row, col, direction) ==
  IF direction > 3 THEN m
  ELSE Explosion(propagate_explosion(m, row, col, direction), row, col, direction + 1)

\* The ignition roll of advance_fire on cell <<random_row, random_col>>.
IgnitionRoll(m, random_row, random_col) ==
  LET c == <<random_row, random_col>>
  IN  IF c \notin m.fire /\ c \notin m.smoke
        THEN [m EXCEPT !.smoke = @ \cup {c}]
      ELSE IF c \notin m.fire /\ c \in m.smoke
        THEN LoseVictim([m EXCEPT !.fire = @ \cup {c}, !.smoke = @ \ {c}],
                        random_row, random_col)
      ELSE Explosion(m, random_row, random_col, 0)

\* The place of <<y, x, direction>> in the scan order of the detection loops.
ScanIndex(h) == (h[1] * Cols + h[2]) * 4 + h[3]

\* The neighbour <<ny, nx>> the scan looks at from cell <<y, x>> in a direction.
FlashoverTarget(h) ==
  LET n == get_adjacent_position(h[2], h[1], h[3]) IN <<n[2], n[1]>>

\* The detection scan without "not is_perimeter": neighbours on the ring are
\* detected as well.
Detections_OntoRing(m) ==
  { h \in (0..Rows-1) \X (0..Cols-1) \X Dirs :
      /\ <<h[1], h[2]>> \in m.fire
      /\ can_pass_wall(m, h[1], h[2], h[3])
      /\ InGrid(FlashoverTarget(h)[2], FlashoverTarget(h)[1])
      /\ FlashoverTarget(h) \notin m.fire }

\* "Detect fire propagation": the scan positions <<y, x, direction>> that append
\* their neighbour to one of the two lists.
Detections(m) ==
  { h \in (0..Rows-1) \X (0..Cols-1) \X Dirs :
      /\ <<h[1], h[2]>> \in m.fire
      /\ can_pass_wall(m, h[1], h[2], h[3])
      /\ InGrid(FlashoverTarget(h)[2], FlashoverTarget(h)[1])
      /\ ~is_perimeter(FlashoverTarget(h)[2], FlashoverTarget(h)[1])
      /\ FlashoverTarget(h) \notin m.fire }

\* new_fires with the test of the neighbour's smoke flag left out.
new_fires_AnyReached(m) == Detections(m)

\* The list new_fires, one entry per scan position: a cell appears once for
\* every burning neighbour that reaches it.
new_fires(m) == { h \in Detections(m) : FlashoverTarget(h) \in m.smoke }

new_smokes(m) == { h \in Detections(m) : FlashoverTarget(h) \notin m.smoke }

\* "for y, x in new_fires" with the victim counted and the POI left on the cell.
RECURSIVE ApplyNewFires_KeepsPoi(_, _)
ApplyNewFires_KeepsPoi(m, entries) ==
  IF entries = {} THEN m
  ELSE LET h == CHOOSE h \in entries : \A g \in entries : ScanIndex(h) <= ScanIndex(g)
           c == FlashoverTarget(h)
           m1 == [m EXCEPT !.fire = @ \cup {c}, !.smoke = @ \ {c}]
           m2 == IF c \in DOMAIN m1.poi /\ m1.poi[c] = "v"
                   THEN [m1 EXCEPT !.victims_lost = @ + 1]
                   ELSE m1
       IN  ApplyNewFires_KeepsPoi(m2, entries \ {h})

\* "for y, x in new_fires": the entries are applied one by one, in list order.
RECURSIVE ApplyNewFires(_, _)
ApplyNewFires(m, entries) ==
  IF entries = {} THEN m
  ELSE LET h == CHOOSE h \in entries : \A g \in entries : ScanIndex(h) <= ScanIndex(g)
           c == FlashoverTarget(h)
           m1 == [m EXCEPT !.fire = @ \cup {c}, !.smoke = @ \ {c}]
       IN  ApplyNewFires(LoseVictim(m1, c[1], c[2]), entries \ {h})

\* The flashover pass of advance_fire: detection on a snapshot, then application.
Flashover(m) ==
  LET fires == new_fires(m)
      smokes == new_smokes(m)
      m1 == ApplyNewFires(m, fires)
  IN  [m1 EXCEPT !.smoke = @ \cup ({ FlashoverTarget(h) : h \in smokes }
                                     \ { FlashoverTarget(h) : h \in fires })]

advance_fire(m, random_row, random_col) ==
  Flashover(IgnitionRoll(m, random_row, random_col))


(***************************************************************************)
(* GameMechanics: knockdown, POI deck, end conditions.                     *)
(***************************************************************************)
\* The firefighters standing on cell <<row, col>> (grid.get_cell_list_contents).
FirefightersAt(m, row, col) == { i \in FF : m.pos[i] = <<col, row>> }

DeckSize(deck) == deck.v + deck.f

CountType(s, t) == Cardinality({ i \in DOMAIN s : s[i][3] = t })

Max(a, b) == IF a >= b THEN a ELSE b
Min(a, b) == IF a <= b THEN a ELSE b

\* "Initialize POI deck if needed or if it's empty": the deck as a multiset;
\* its order is the shuffle's draw, so a pop(0) yields any token it holds.
DeckInit(m) ==
  IF DeckSize(m.mazo_pois) = 0
    THEN [m EXCEPT !.mazo_pois =
            [ v |-> Max(0, VictimSupply - CountType(m.scenario.pois, "v")),
              f |-> Max(0, FalseAlarmSupply - CountType(m.scenario.pois, "f")) ]]
    ELSE m

\* valid_cells of replenish_pois.
ValidCells(m) ==
  { c \in (1..Rows-2) \X (1..Cols-2) :
      /\ c \notin DOMAIN m.poi
      /\ \E direction \in Dirs :
           ~has_wall(m, c[1], c[2], direction) \/ is_wall_destroyed(m, c[1], c[2], direction) }

\* The cells of valid_cells that accept a token of type t.
AcceptingCells(m, t) ==
  { c \in ValidCells(m) : ~(FirefightersAt(m, c[1], c[2]) # {} /\ t = "f") }

\* The order in which the model lets the shuffle put cells first: the first
\* entry, the corridor cell east of the fire at <<3, 3>>, then the rest row by row.
PlacementRank(c) ==
  IF c = <<1, 6>> THEN 1
  ELSE IF c = <<3, 4>> THEN 2
  ELSE 10 + c[1] * Cols + c[2]

\* The cells the shuffle may put first: the first MaxPlacement cells in that
\* order, and any cell a firefighter stands on.
PlacementChoices(m, t) ==
  LET acc == AcceptingCells(m, t)
  IN  { c \in acc : \/ Cardinality({ c2 \in acc : PlacementRank(c2) < PlacementRank(c) })
                          < MaxPlacement
                     \/ FirefightersAt(m, c[1], c[2]) # {} }

\* list.remove(e): the first element equal to e is removed.
ListRemove(s, e) ==
  LET hits == { i \in DOMAIN s : s[i] = e }
  IN  IF hits = {} THEN s ELSE ListPop(s, CHOOSE i \in hits : \A j \in hits : i <= j)

\* A token of type poi_type is put on <<row, col>>: fire and smoke are cleared,
\* the token is placed, and a firefighter there who carries nothing picks a
\* victim up at once.  The firefighter is the first of the cell's contents
\* that is not carrying; the contents' order is the arrival order, which the
\* model leaves open.
PlaceOutcomes(m, poi_type, row, col) ==
  LET c == <<row, col>>
      placed == [m EXCEPT !.fire = @ \ {c},
                          !.smoke = @ \ {c},
                          !.poi = DictSet(@, c, poi_type),
                          !.scenario.pois = Append(@, <<row, col, poi_type>>)]
      free == { i \in FirefightersAt(m, row, col) : ~m.carrying[i] }
  IN  IF poi_type = "v" /\ free # {}
        THEN { [placed EXCEPT !.carrying[i] = TRUE,
                              !.poi = DictDel(@, c),
                              !.scenario.pois = ListRemove(@, <<row, col, poi_type>>)]
               : i \in free }
        ELSE { placed }

DeckTypes(deck) == { t \in {"v", "f"} : deck[t] > 0 }

\* The loop with "poi_type = model.mazo_pois[0]" in place of pop(0): the token
\* put on the board stays in the deck.
RECURSIVE ReplenishLoop_NoPop(_, _)
ReplenishLoop_NoPop(m, pois_to_add) ==
  IF pois_to_add = 0 \/ DeckSize(m.mazo_pois) = 0 THEN { m }
  ELSE UNION {
         LET cells == PlacementChoices(m, poi_type)
         IN  IF cells = {}
               THEN ReplenishLoop_NoPop(m, pois_to_add - 1)
               ELSE UNION { UNION { ReplenishLoop_NoPop(m2, pois_to_add - 1)
                                    : m2 \in PlaceOutcomes(m, poi_type, c[1], c[2]) }
                            : c \in cells }
         : poi_type \in DeckTypes(m.mazo_pois) }

\* "for _ in range(pois_to_add)": the models the loop can end in.
RECURSIVE ReplenishLoop(_, _)
ReplenishLoop(m, pois_to_add) ==
  IF pois_to_add = 0 \/ DeckSize(m.mazo_pois) = 0 THEN { m }
  ELSE UNION {
         LET drawn == [m EXCEPT !.mazo_pois[poi_type] = @ - 1]
             cells == PlacementChoices(drawn, poi_type)
         IN  IF cells = {}
               THEN ReplenishLoop(m, pois_to_add - 1)   \* returned to the deck
               ELSE UNION { UNION { ReplenishLoop(m2, pois_to_add - 1)
                                    : m2 \in PlaceOutcomes(drawn, poi_type, c[1], c[2]) }
                            : c \in cells }
         : poi_type \in DeckTypes(m.mazo_pois) }

\* replenish_pois without the test "current_pois_count >= 3": one token is
\* drawn in every call.
replenish_pois_NoTarget(m) == ReplenishLoop(DeckInit(m), 1)

\* replenish_pois: the set of models it can leave.
replenish_pois(m) ==
  LET current_pois_count == Len(m.scenario.pois)
  IN  IF current_pois_count >= PoiTarget THEN { m }
      ELSE ReplenishLoop(DeckInit(m), PoiTarget - current_pois_count)

\* check_firefighters_in_fire: the injured firefighters are processed in the
\* order of the scan; each one carrying a victim loses it and replenish_pois runs.
InjuredFirefighters(m) == { i \in FF : <<m.pos[i][2], m.pos[i][1]>> \in m.fire }

\* The place of firefighter i in the scan (rows, then columns, then the cell's contents).
ScanRank(m, i) == (m.pos[i][2] * Cols + m.pos[i][1]) * (NumFirefighters + 1) + i

RECURSIVE KnockdownLoop(_, _)
KnockdownLoop(m, injured) ==
  IF injured = {} THEN { m }
  ELSE LET ff == CHOOSE i \in injured : \A j \in injured : ScanRank(m, i) <= ScanRank(m, j)
           afterLoss == IF m.carrying[ff]
                          THEN replenish_pois([m EXCEPT !.carrying[ff] = FALSE,
                                                        !.victims_lost = @ + 1])
                          ELSE { m }
       IN  UNION { KnockdownLoop([m1 EXCEPT !.pos[ff] = ambulance_pos, !.ap[ff] = 0],
                                 injured \ {ff})
                   : m1 \in afterLoss }

check_firefighters_in_fire(m) == KnockdownLoop(m, InjuredFirefighters(m))

\* check_end_conditions with the lost-victims test written "> 4".
EndReached_LostOffByOne(m) ==
  \/ m.victims_rescued >= RescuedToWin
  \/ m.victims_lost > LostToLose
  \/ m.damage_counters >= DamageToCollapse

\* check_end_conditions: the value assigned to simulation_over, if any.
EndReached(m) ==
  \/ m.victims_rescued >= RescuedToWin
  \/ m.victims_lost >= LostToLose
  \/ m.damage_counters >= DamageToCollapse


(***************************************************************************)
(* FirefighterAgent: the operations of one agent (i is the agent).         *)
(***************************************************************************)
\* extinguish_fire whose "convert" sets the smoke flag and leaves the fire flag.
extinguish_fire_KeepsFire(m, i, cell_y, cell_x, type) ==
  LET c == <<cell_y, cell_x>>
  IN  IF type = "fire" /\ c \in m.fire
        THEN IF m.ap[i] >= 2
               THEN [m EXCEPT !.fire = @ \ {c}, !.ap[i] = @ - 2]
               ELSE m
      ELSE IF type = "convert" /\ c \in m.fire
        THEN IF m.ap[i] >= 1
               THEN [m EXCEPT !.smoke = @ \cup {c}, !.ap[i] = @ - 1]
               ELSE m
      ELSE IF type = "smoke" /\ c \in m.smoke
        THEN IF m.ap[i] >= 1
               THEN [m EXCEPT !.smoke = @ \ {c}, !.ap[i] = @ - 1]
               ELSE m
      ELSE m

\* extinguish_fire(cell_y, cell_x, type)
extinguish_fire(m, i, cell_y, cell_x, type) ==
  LET c == <<cell_y, cell_x>>
  IN  IF type = "fire" /\ c \in m.fire
        THEN IF m.ap[i] >= 2
               THEN [m EXCEPT !.fire = @ \ {c}, !.ap[i] = @ - 2]
               ELSE m
      ELSE IF type = "convert" /\ c \in m.fire
        THEN IF m.ap[i] >= 1
               THEN [m EXCEPT !.fire = @ \ {c}, !.smoke = @ \cup {c}, !.ap[i] = @ - 1]
               ELSE m
      ELSE IF type = "smoke" /\ c \in m.smoke
        THEN IF m.ap[i] >= 1
               THEN [m EXCEPT !.smoke = @ \ {c}, !.ap[i] = @ - 1]
               ELSE m
      ELSE m

\* open_close_door(direction)
open_close_door(m, i, direction) ==
  LET x == m.pos[i][1]
      y == m.pos[i][2]
      door_pos == get_wall_key(y, x, direction)
      current_state == IF door_pos \notin DOMAIN m.door_states THEN "closed"
                       ELSE m.door_states[door_pos]
      new_state == IF current_state = "closed" THEN "open" ELSE "closed"
  IN  IF m.ap[i] < 1 THEN m
      ELSE IF is_door(m, y, x, direction)
        THEN [m EXCEPT !.door_states = DictSet(@, door_pos, new_state), !.ap[i] = @ - 1]
      ELSE m

\* cut_wall(direction)
cut_wall(m, i, direction) ==
  LET x == m.pos[i][1]
      y == m.pos[i][2]
      n == get_adjacent_position(x, y, direction)
  IN  IF m.ap[i] < 2 THEN m
      ELSE IF has_wall(m, y, x, direction)
        THEN IF is_perimeter(n[1], n[2]) THEN m
             ELSE [damage_wall(m, y, x, direction).m EXCEPT !.ap[i] = @ - 2]
      ELSE m

\* The values the three action methods return: True when the action was carried out.
extinguish_fire_returns(m, i, cell_y, cell_x, type) ==
  \/ type = "fire" /\ <<cell_y, cell_x>> \in m.fire /\ m.ap[i] >= 2
  \/ type = "convert" /\ <<cell_y, cell_x>> \in m.fire /\ m.ap[i] >= 1
  \/ type = "smoke" /\ <<cell_y, cell_x>> \in m.smoke /\ m.ap[i] >= 1

open_close_door_returns(m, i, direction) ==
  m.ap[i] >= 1 /\ is_door(m, m.pos[i][2], m.pos[i][1], direction)

cut_wall_returns(m, i, direction) ==
  LET n == get_adjacent_position(m.pos[i][1], m.pos[i][2], direction)
  IN  /\ m.ap[i] >= 2
      /\ has_wall(m, m.pos[i][2], m.pos[i][1], direction)
      /\ ~is_perimeter(n[1], n[2])

\* The POI check that opens every iteration of the loop of step.
PoiCheck(m, i) ==
  LET c == <<m.pos[i][2], m.pos[i][1]>>
  IN  IF c \in DOMAIN m.poi
        THEN IF m.poi[c] = "v" /\ ~m.carrying[i]
               THEN [m EXCEPT !.carrying[i] = TRUE, !.poi = DictDel(@, c)]
             ELSE IF m.poi[c] = "f"
               THEN [m EXCEPT !.poi = DictDel(@, c)]
             ELSE m
        ELSE m

\* adjacent_cells of step: cells <<ny, nx>>.
AdjacentCells(m, i) ==
  LET x == m.pos[i][1]
      y == m.pos[i][2]
  IN  { <<n[2], n[1]>> : n \in
          { get_adjacent_position(x, y, direction) : direction \in
              { d \in Dirs : /\ InGrid(get_adjacent_position(x, y, d)[1],
                                       get_adjacent_position(x, y, d)[2])
                             /\ can_pass_wall(m, y, x, d) } } }

\* The directions for which step offers "door_<i>".
DoorActions(m, i) ==
  LET x == m.pos[i][1]
      y == m.pos[i][2]
  IN  { d \in Dirs :
          /\ \/ (d = 0 /\ y > 0)
             \/ (d = 1 /\ x < Cols - 1)
             \/ (d = 2 /\ y < Rows - 1)
             \/ (d = 3 /\ x > 0)
          /\ <<y, x, d>> \in compute_door_positions(m.scenario.doors)
          /\ m.ap[i] >= 1 }

\* The directions for which step offers "cut_<i>".
CutActions(m, i) ==
  LET x == m.pos[i][1]
      y == m.pos[i][2]
  IN  { d \in Dirs :
          /\ <<y, x, d>> \in m.walls
          /\ m.ap[i] >= 2
          /\ ~ \/ (d = 0 /\ y = 1)
               \/ (d = 1 /\ x = Cols - 2)
               \/ (d = 2 /\ y = Rows - 2)
               \/ (d = 3 /\ x = 1)
               \/ (y = 0 /\ d = 0)
               \/ (x = Cols - 1 /\ d = 1)
               \/ (y = Rows - 1 /\ d = 2)
               \/ (x = 0 /\ d = 3) }

\* "pass" appended only on the ambulance cell, "self.ap <= 4" left out.
PassOffered_AtAmbulance(m, i) == m.pos[i] = ambulance_pos

\* "pass" is offered.
PassOffered(m, i) == m.ap[i] <= 4 \/ m.pos[i] = ambulance_pos

\* movements of _perform_movement: <<nx, ny, ap_cost, direction>>.
Movements(m, i) ==
  LET x == m.pos[i][1]
      y == m.pos[i][2]
      can_pass(d) == \/ ~has_wall(m, y, x, d)
                     \/ is_wall_destroyed(m, y, x, d)
                     \/ (is_door(m, y, x, d) /\ is_door_open(m, y, x, d))
      cost(n) == IF m.carrying[i] THEN 2
                 ELSE IF <<n[2], n[1]>> \in m.fire THEN 2 ELSE 1
  IN  { <<get_adjacent_position(x, y, d)[1], get_adjacent_position(x, y, d)[2],
          cost(get_adjacent_position(x, y, d)), d>> : d \in
          { d \in Dirs :
              LET n == get_adjacent_position(x, y, d)
              IN  /\ can_pass(d)
                  /\ InGrid(n[1], n[2])
                  /\ (~is_perimeter(n[1], n[2]) \/ is_entry(m, n[1], n[2]))
                  /\ m.ap[i] >= cost(n)
                  /\ ~(m.carrying[i] /\ <<n[2], n[1]>> \in m.fire) } }

\* The rescue that ends _perform_movement.
RescueAfterMove(m, i) ==
  IF m.carrying[i] /\ is_entry(m, m.pos[i][1], m.pos[i][2])
    THEN replenish_pois([m EXCEPT !.carrying[i] = FALSE, !.victims_rescued = @ + 1])
    ELSE { m }

\* _perform_movement once the movement mv has been drawn: the models it can leave.
MoveOutcomes(m, i, mv) ==
  LET x == m.pos[i][1]
      y == m.pos[i][2]
      c == <<mv[2], mv[1]>>
      moved == [m EXCEPT !.pos[i] = <<mv[1], mv[2]>>, !.ap[i] = @ - mv[3]]
      afterPoi ==
        IF c \in DOMAIN moved.poi
          THEN IF moved.poi[c] = "v" /\ ~moved.carrying[i]
                 THEN { [moved EXCEPT !.carrying[i] = TRUE,
                                      !.poi = DictDel(@, c),
                                      !.scenario.pois = PopPoiAt(@, c[1], c[2])] }
               ELSE IF moved.poi[c] = "f"
                 THEN replenish_pois([moved EXCEPT !.poi = DictDel(@, c),
                                                   !.scenario.pois = PopPoiAt(@, c[1], c[2])])
               ELSE { moved }
          ELSE { moved }
  IN  IF is_door(m, y, x, mv[4]) /\ ~is_door_open(m, y, x, mv[4])
        THEN { m }
        ELSE UNION { RescueAfterMove(m1, i) : m1 \in afterPoi }

\* _perform_movement: the models it can leave.
perform_movement(m, i) ==
  IF Movements(m, i) = {} THEN { m }
  ELSE UNION { MoveOutcomes(m, i, mv) : mv \in Movements(m, i) }

\* The outcomes of the fire and smoke actions that step offers.
FireActionOutcomes(m, i) ==
  LET x == m.pos[i][1]
      y == m.pos[i][2]
      here == <<y, x>>
      adjFire == { c \in AdjacentCells(m, i) : c \in m.fire }
      adjSmoke == { c \in AdjacentCells(m, i) : c \in m.smoke }
  IN  (IF here \in m.fire /\ m.ap[i] >= 2
         THEN { extinguish_fire(m, i, y, x, "fire"), extinguish_fire(m, i, y, x, "convert") }
         ELSE {})
      \cup (IF here \in m.smoke /\ m.ap[i] >= 1
              THEN { extinguish_fire(m, i, y, x, "smoke") } ELSE {})
      \cup (IF m.ap[i] >= 2
              THEN { extinguish_fire(m, i, c[1], c[2], "fire") : c \in adjFire }
                   \cup { extinguish_fire(m, i, c[1], c[2], "convert") : c \in adjFire }
              ELSE {})
      \cup (IF m.ap[i] >= 1
              THEN { extinguish_fire(m, i, c[1], c[2], "smoke") : c \in adjSmoke }
              ELSE {})

\* create_agents: the cell outside the entry on which agent i is created, and its entry.
EntryOf(sc, i) == sc.entries[((i - 1) % Len(sc.entries)) + 1]

ExteriorOf(sc, i) ==
  LET row == EntryOf(sc, i)[1]
      column == EntryOf(sc, i)[2]
      north_dist == row
      south_dist == Rows - 1 - row
      west_dist == column
      east_dist == Cols - 1 - column
  IN  IF north_dist <= Min(south_dist, Min(west_dist, east_dist)) THEN <<column, row - 1>>
      ELSE IF south_dist <= Min(north_dist, Min(west_dist, east_dist)) THEN <<column, row + 1>>
      ELSE IF west_dist <= Min(north_dist, Min(south_dist, east_dist)) THEN <<column - 1, row>>
      ELSE <<column + 1, row>>


(***************************************************************************)
(* State.                                                                  *)
(***************************************************************************)
VARIABLES
  fire,             \* cells whose grid_state "fire" flag is set
  smoke,            \* cells whose grid_state "smoke" flag is set
  poi,              \* grid_state "poi": cell -> "v" | "f" (absent: None)
  walls,            \* keys <<y, x, d>> whose grid_state wall bit is 1
  door_states,      \* model.door_states: door key -> "closed" | "open"
  wall_damage,      \* model.wall_damage: wall key -> hits
  victims_lost,
  victims_rescued,
  damage_counters,
  mazo_pois,        \* the deck: how many "v" and "f" tokens it holds
  scenario,         \* model.scenario: doors, entries and the active-POI list pois
  pos,              \* agent -> mesa position <<x, y>>
  ap,               \* agent -> action points
  carrying,         \* agent -> carrying a victim
  assigned_entry,   \* agent -> <<x, y>> of its entry, <<>> once entered (None)
  simulation_over,
  step_count,
  stage,
  pc,               \* where FireRescueModel.step stands ("idle": between calls)
  current,          \* the agent whose step is running (0: none)
  acted,            \* the agents whose step of this turn has returned
  phases,           \* the phases of step completed in the turn being processed
  refused,          \* calls of step that returned at once (simulation over)
  draws,            \* iterations the running agent's loop has made in this activation
  prior,            \* the model as the phase that ran last found it (when it was a
                    \* fire, knockdown or replenishment phase)
  query,            \* the arguments of the find_path call under study
  search,           \* run -> the locals of that run's find_path call
  current_path,     \* strat2 agent -> its current_path, a list of <<x, y>>
  path_actions,     \* strat2 agent -> its path_actions
  current_target,   \* strat2 agent -> its current_target, "None" or <<x, y, kind>>
  path_cache,       \* strat2 agent -> its pathfinder's _path_cache
  iters,            \* iterations of the loop of the strat2 step in this activation
  expired           \* iterations of that loop in which the clock cut find_path short

vars == << fire, smoke, poi, walls, door_states, wall_damage, victims_lost,
           victims_rescued, damage_counters, mazo_pois, scenario, pos, ap,
           carrying, assigned_entry, simulation_over, step_count, stage,
           pc, current, acted, phases, refused, draws, prior, query, search,
           current_path, path_actions, current_target, path_cache, iters, expired >>

\* The plans of the agents of bombers_strat2.py.
planVars == << current_path, path_actions, current_target, path_cache, iters, expired >>

\* The state of the planner study and of the planning agents; the turn machine
\* of bombers.py leaves it alone.
plannerVars == << query, search, planVars >>

\* Everything a turn can mutate: the program's state without the call bookkeeping.
gameState == << fire, smoke, poi, walls, door_states, wall_damage, victims_lost,
                victims_rescued, damage_counters, mazo_pois, scenario, pos, ap,
                carrying, assigned_entry, simulation_over, step_count, stage >>

\* The model object handed to the operators above.
World ==
  [ fire |-> fire, smoke |-> smoke, poi |-> poi, walls |-> walls,
    door_states |-> door_states, wall_damage |-> wall_damage,
    victims_lost |-> victims_lost, victims_rescued |-> victims_rescued,
    damage_counters |-> damage_counters, mazo_pois |-> mazo_pois,
    scenario |-> scenario, pos |-> pos, ap |-> ap, carrying |-> carrying ]

Apply(m) ==
  /\ fire' = m.fire
  /\ smoke' = m.smoke
  /\ poi' = m.poi
  /\ walls' = m.walls
  /\ door_states' = m.door_states
  /\ wall_damage' = m.wall_damage
  /\ victims_lost' = m.victims_lost
  /\ victims_rescued' = m.victims_rescued
  /\ damage_counters' = m.damage_counters
  /\ mazo_pois' = m.mazo_pois
  /\ scenario' = m.scenario
  /\ pos' = m.pos
  /\ ap' = m.ap
  /\ carrying' = m.carrying

\* FireRescueModel.__init__ (with build_grid_state and create_agents) on scenario sc.
InitModel(sc) ==
  /\ fire = sc.fires
  /\ smoke = {}
  /\ poi = [ c \in { <<q[1], q[2]>> : q \in Range(sc.pois) } |->
               sc.pois[CHOOSE k \in DOMAIN sc.pois :
                         /\ <<sc.pois[k][1], sc.pois[k][2]>> = c
                         /\ \A j \in DOMAIN sc.pois :
                              <<sc.pois[j][1], sc.pois[j][2]>> = c => k <= j][3] ]
  /\ walls = sc.grid_walls
  /\ door_states = [ k \in compute_door_positions(sc.doors) |-> "closed" ]
  /\ wall_damage = <<>>
  /\ victims_lost = 0
  /\ victims_rescued = 0
  /\ damage_counters = 0
  /\ mazo_pois = [ v |-> 0, f |-> 0 ]
  /\ scenario = [ doors |-> sc.doors, entries |-> sc.entries, pois |-> sc.pois ]
  /\ pos = [ i \in FF |-> ExteriorOf(sc, i) ]
  /\ ap = [ i \in FF |-> InitialAp ]
  /\ carrying = [ i \in FF |-> FALSE ]
  /\ assigned_entry = [ i \in FF |-> <<EntryOf(sc, i)[2], EntryOf(sc, i)[1]>> ]
  /\ simulation_over = FALSE
  /\ step_count = 0
  /\ stage = 0
  /\ pc = "idle"
  /\ current = 0
  /\ acted = {}
  /\ phases = <<>>
  /\ refused = 0
  /\ draws = 0
  /\ prior = [op |-> "none"]

\* No find_path call is under study while the turn machine runs.
NoPlanner ==
  /\ query = [ start |-> <<0, 0>>, goal |-> <<0, 0>> ]
  /\ search = << >>

\* FirefighterAgent.__init__ of bombers_strat2.py: no path, no target, no cache.
NoPlans ==
  /\ current_path = [ i \in FF |-> << >> ]
  /\ path_actions = [ i \in FF |-> << >> ]
  /\ current_target = [ i \in FF |-> "None" ]
  /\ path_cache = [ i \in FF |-> << >> ]
  /\ iters = 0
  /\ expired = 0

Init == NoPlanner /\ NoPlans /\ \E sc \in Scenarios : InitModel(sc)

(***************************************************************************)
(* FireRescueModel.step, phase by phase.                                   *)
(***************************************************************************)
\* The ignition cells the model draws from: <<random_row, random_col>>.
IgnitionRolls == << <<3, 3>>, <<5, 6>>, <<2, 6>>, <<4, 4>>, <<5, 8>>, <<5, 7>>, <<2, 4>>, <<1, 6>> >>

IgnitionChoices == { IgnitionRolls[k] : k \in 1..Min(MaxIgnition, Len(IgnitionRolls)) }

\* The phase that runs now is not one whose starting model is kept.
Forget == prior' = [op |-> "none"]

\* The phase that runs now starts from the current model.
Record(op) == prior' = [op |-> op, m |-> World]

\* step is called and the run is not over: the turn starts.
StepBegin ==
  /\ pc = "idle"
  /\ ~simulation_over
  /\ step_count < MaxTurns
  /\ step_count' = step_count + 1
  /\ stage' = IF stage = 0 /\ step_count + 1 = 1 THEN 1 ELSE stage
  /\ pc' = "agents"
  /\ current' = 0
  /\ acted' = {}
  /\ phases' = <<>>
  /\ UNCHANGED << fire, smoke, poi, walls, door_states, wall_damage, victims_lost,
                  victims_rescued, damage_counters, mazo_pois, scenario, pos, ap,
                  carrying, assigned_entry, simulation_over, refused, draws >>
  /\ UNCHANGED plannerVars
  /\ Forget

\* step with "step_count += 1" moved above the simulation_over test.
StepRefused_Counts ==
  /\ pc = "idle"
  /\ simulation_over
  /\ refused < MaxRefused
  /\ refused' = refused + 1
  /\ step_count' = step_count + 1
  /\ UNCHANGED << fire, smoke, poi, walls, door_states, wall_damage, victims_lost,
                  victims_rescued, damage_counters, mazo_pois, scenario, pos, ap,
                  carrying, assigned_entry, simulation_over, stage,
                  pc, current, acted, phases, draws >>
  /\ UNCHANGED plannerVars
  /\ Forget

\* step is called and the run is over: it returns at once.
StepRefused ==
  /\ pc = "idle"
  /\ simulation_over
  /\ refused < MaxRefused
  /\ refused' = refused + 1
  /\ UNCHANGED << gameState, pc, current, acted, phases, draws >>
  /\ UNCHANGED plannerVars
  /\ Forget

\* The scheduler activates agent i (in any order) or resumes its running loop.
Scheduled(i) ==
  /\ pc = "agents"
  /\ \/ current = i
     \/ (current = 0 /\ i \notin acted)

\* One iteration of the loop of FirefighterAgent.step ends in model m2; the
\* loop is left if leave holds or no action points remain.
Iterate(i, m2, leave) ==
  /\ Apply(m2)
  /\ current' = IF leave \/ m2.ap[i] <= 0 THEN 0 ELSE i
  /\ acted' = IF leave \/ m2.ap[i] <= 0 THEN acted \cup {i} ELSE acted
  /\ draws' = IF leave \/ m2.ap[i] <= 0 THEN 0 ELSE Min(draws + 1, MaxDraws)
  /\ UNCHANGED << assigned_entry, simulation_over, step_count, stage, pc, phases, refused >>
  /\ UNCHANGED plannerVars

\* The loop of step runs an iteration for agent i: the model after its POI check.
InLoop(i) ==
  /\ Scheduled(i)
  /\ ~(stage = 1 /\ assigned_entry[i] # <<>>)
  /\ ap[i] > 0

AtEntryCarrying(m, i) ==
  m.carrying[i] /\ <<m.pos[i][2], m.pos[i][1]>> \in Range(m.scenario.entries)

\* An iteration that goes on to draw an action.
Choosing(i) == InLoop(i) /\ ~AtEntryCarrying(PoiCheck(World, i), i)

\* The draw may be any possible action (otherwise it is "pass").
FreeDraw(i) == draws < MaxDraws \/ ~PassOffered(PoiCheck(World, i), i)

\* First activation: the agent is moved onto its entry and its step returns.
AgentEnter(i) ==
  /\ Scheduled(i)
  /\ stage = 1 /\ assigned_entry[i] # <<>>
  /\ pos' = [pos EXCEPT ![i] = assigned_entry[i]]
  /\ assigned_entry' = [assigned_entry EXCEPT ![i] = <<>>]
  /\ current' = 0
  /\ acted' = acted \cup {i}
  /\ UNCHANGED << fire, smoke, poi, walls, door_states, wall_damage, victims_lost,
                  victims_rescued, damage_counters, mazo_pois, scenario, ap,
                  carrying, simulation_over, step_count, stage, pc, phases, refused, draws >>
  /\ UNCHANGED plannerVars
  /\ Forget

\* The model replenish_pois is called on when agent i completes a rescue.
Rescued(i) ==
  [PoiCheck(World, i) EXCEPT !.carrying[i] = FALSE, !.victims_rescued = @ + 1]

\* "Check for rescue at entry with victim": the rescue, replenish_pois, return.
AgentRescue(i) ==
  /\ InLoop(i)
  /\ AtEntryCarrying(PoiCheck(World, i), i)
  /\ \E m2 \in replenish_pois(Rescued(i)) : Iterate(i, m2, TRUE)
  /\ prior' = [op |-> "replenish", m |-> Rescued(i)]

AgentMove(i) ==
  /\ Choosing(i)
  /\ FreeDraw(i)
  /\ \E m2 \in perform_movement(PoiCheck(World, i), i) : Iterate(i, m2, FALSE)
  /\ Forget

AgentFire(i) ==
  /\ Choosing(i)
  /\ FreeDraw(i)
  /\ \E m2 \in FireActionOutcomes(PoiCheck(World, i), i) : Iterate(i, m2, FALSE)
  /\ Forget

AgentDoor(i) ==
  /\ Choosing(i)
  /\ FreeDraw(i)
  /\ \E d \in DoorActions(PoiCheck(World, i), i) :
       Iterate(i, open_close_door(PoiCheck(World, i), i, d), FALSE)
  /\ Forget

AgentCut(i) ==
  /\ Choosing(i)
  /\ FreeDraw(i)
  /\ \E d \in CutActions(PoiCheck(World, i), i) :
       Iterate(i, cut_wall(PoiCheck(World, i), i, d), FALSE)
  /\ Forget

AgentPass(i) ==
  /\ Choosing(i)
  /\ PassOffered(PoiCheck(World, i), i)
  /\ Iterate(i, PoiCheck(World, i), TRUE)
  /\ Forget

\* schedule.step() has returned: the fire phase follows under the guard of step.
AgentsDone ==
  /\ pc = "agents"
  /\ current = 0
  /\ acted = FF
  /\ pc' = IF step_count > 1 \/ (step_count = 1 /\ stage = 1) THEN "fire" ELSE "end"
  /\ phases' = Append(phases, "agents")
  /\ UNCHANGED << gameState, current, acted, refused, draws >>
  /\ UNCHANGED plannerVars
  /\ Forget

\* advance_fire, first half: the ignition roll (smoke, fire or explosion).
AdvanceFireRoll ==
  /\ pc = "fire"
  /\ \E c \in IgnitionChoices : Apply(IgnitionRoll(World, c[1], c[2]))
  /\ pc' = "flashover"
  /\ UNCHANGED << assigned_entry, simulation_over, step_count, stage, current, acted,
                  phases, refused, draws >>
  /\ UNCHANGED plannerVars
  /\ Record("roll")

\* advance_fire, second half: the flashover pass; advance_fire returns.
AdvanceFireFlashover ==
  /\ pc = "flashover"
  /\ Apply(Flashover(World))
  /\ pc' = "knockdown"
  /\ phases' = Append(phases, "fire")
  /\ UNCHANGED << assigned_entry, simulation_over, step_count, stage, current, acted, refused, draws >>
  /\ UNCHANGED plannerVars
  /\ Record("flashover")

\* step with replenish_pois called right after the knockdown check, in place
\* of the AP regeneration loop.
CheckFirefighters_ThenReplenish ==
  /\ pc = "knockdown"
  /\ \E m2 \in check_firefighters_in_fire(World) : Apply(m2)
  /\ pc' = "replenish"
  /\ phases' = Append(phases, "knockdown")
  /\ UNCHANGED << assigned_entry, simulation_over, step_count, stage, current, acted, refused, draws >>
  /\ UNCHANGED plannerVars
  /\ Record("knockdown")

CheckFirefighters ==
  /\ pc = "knockdown"
  /\ \E m2 \in check_firefighters_in_fire(World) : Apply(m2)
  /\ pc' = "recover"
  /\ phases' = Append(phases, "knockdown")
  /\ UNCHANGED << assigned_entry, simulation_over, step_count, stage, current, acted, refused, draws >>
  /\ UNCHANGED plannerVars
  /\ Record("knockdown")

\* The regeneration loop with "agent.ap = agent.ap + 4", the cap left out.
RecoverAp_Uncapped ==
  /\ pc = "recover"
  /\ ap' = [ i \in FF |-> ap[i] + ApGain ]
  /\ pc' = "replenish"
  /\ phases' = Append(phases, "recover")
  /\ UNCHANGED << fire, smoke, poi, walls, door_states, wall_damage, victims_lost,
                  victims_rescued, damage_counters, mazo_pois, scenario, pos,
                  carrying, assigned_entry, simulation_over, step_count, stage,
                  current, acted, refused, draws >>
  /\ UNCHANGED plannerVars
  /\ Forget

\* "Regenerate action points for the next turn"
RecoverAp ==
  /\ pc = "recover"
  /\ ap' = [ i \in FF |-> Min(ap[i] + ApGain, MaxAp) ]
  /\ pc' = "replenish"
  /\ phases' = Append(phases, "recover")
  /\ UNCHANGED << fire, smoke, poi, walls, door_states, wall_damage, victims_lost,
                  victims_rescued, damage_counters, mazo_pois, scenario, pos,
                  carrying, assigned_entry, simulation_over, step_count, stage,
                  current, acted, refused, draws >>
  /\ UNCHANGED plannerVars
  /\ Forget

ReplenishPois ==
  /\ pc = "replenish"
  /\ \E m2 \in replenish_pois(World) : Apply(m2)
  /\ pc' = "end"
  /\ phases' = Append(phases, "replenish")
  /\ UNCHANGED << assigned_entry, simulation_over, step_count, stage, current, acted, refused, draws >>
  /\ UNCHANGED plannerVars
  /\ Record("replenish")

\* check_end_conditions, and step returns.
CheckEnd ==
  /\ pc = "end"
  /\ simulation_over' = (simulation_over \/ EndReached(World))
  /\ pc' = "idle"
  /\ phases' = Append(phases, "end")
  /\ UNCHANGED << fire, smoke, poi, walls, door_states, wall_damage, victims_lost,
                  victims_rescued, damage_counters, mazo_pois, scenario, pos, ap,
                  carrying, assigned_entry, step_count, stage, current, acted, refused, draws >>
  /\ UNCHANGED plannerVars
  /\ Forget

AgentStep(i) ==
  \/ AgentEnter(i)
  \/ AgentRescue(i)
  \/ AgentMove(i)
  \/ AgentFire(i)
  \/ AgentDoor(i)
  \/ AgentCut(i)
  \/ AgentPass(i)

Next ==
  \/ StepBegin
  \/ StepRefused
  \/ \E i \in FF : AgentStep(i)
  \/ AgentsDone
  \/ AdvanceFireRoll
  \/ AdvanceFireFlashover
  \/ CheckFirefighters
  \/ RecoverAp
  \/ ReplenishPois
  \/ CheckEnd

Spec == Init /\ [][Next]_vars


(***************************************************************************)
(* AStarPathfinder of src/agentes/bombers_strat2.py: find_path, one loop   *)
(* iteration per step, called by two runs that stand on the same model     *)
(* state and ask for the same path.  Positions are mesa positions          *)
(* <<x, y>>.  The only input of find_path that is not part of the model    *)
(* state or of the random stream is the clock it reads at every iteration. *)
(***************************************************************************)
max_nodes == 1000
DistanceCutoff == 15
FirePenalty == 10
SmokePenalty == 3

Runs == 1..2

Abs(n) == IF n < 0 THEN -n ELSE n

\* heuristic(start, goal): Manhattan distance.
heuristic(start, goal) == Abs(start[1] - goal[1]) + Abs(start[2] - goal[2])

\* get_neighbors(pos): the set of <<nx, ny, action cost>>.
get_neighbors(m, position) ==
  LET x == position[1]
      y == position[2]
      edge(direction) ==
        LET n == get_adjacent_position(x, y, direction)
            door_state == get_door_state(m, y, x, direction)
            wall_key == get_wall_key(y, x, direction)
            damage == IF wall_key \in DOMAIN m.wall_damage THEN m.wall_damage[wall_key] ELSE 0
        IN  IF ~InGrid(n[1], n[2]) THEN {}
            ELSE IF can_pass_wall(m, y, x, direction) THEN { <<n[1], n[2], 0>> }
            ELSE IF is_door(m, y, x, direction)
              THEN (IF door_state = "closed" THEN { <<n[1], n[2], 1>> }
                    ELSE IF door_state # "destroyed" THEN { <<n[1], n[2], 2>> }
                    ELSE {})
            ELSE IF has_wall(m, y, x, direction) /\ ~is_perimeter(x, y)
              THEN (IF damage < 2 THEN { <<n[1], n[2], 2>> } ELSE {})
            ELSE {}
  IN  IF ~InGrid(x, y) THEN {} ELSE UNION { edge(direction) : direction \in Dirs }

\* heapq order on the entries <<priority, x, y>> of the frontier.
HeapLess(a, b) ==
  \/ a[1] < b[1]
  \/ (a[1] = b[1] /\ a[2] < b[2])
  \/ (a[1] = b[1] /\ a[2] = b[2] /\ a[3] < b[3])

HeapTop(frontier) == CHOOSE a \in frontier : \A b \in frontier \ {a} : HeapLess(a, b)

\* The locals of find_path before the loop.
SearchStart(start) ==
  [ pc |-> "loop",
    frontier |-> { <<0, start[1], start[2]>> },
    came_from |-> [ c \in {start} |-> << >> ],
    cost_so_far |-> [ c \in {start} |-> 0 ],
    action_cost |-> [ c \in {start} |-> 0 ],
    nodes_explored |-> 0,
    path |-> << >>,
    actions |-> << >> ]

\* "return [], []"
SearchEmpty(sr) == [sr EXCEPT !.pc = "done", !.path = << >>, !.actions = << >>]

\* The body of the loop once the clock test has passed: pop, goal test, relaxation.
\* avoid_fire is True in every call of the repository.
SearchExpand(m, sr, goal) ==
  LET top == HeapTop(sr.frontier)
      cur == <<top[2], top[3]>>
      neighbors == get_neighbors(m, cur)
      new_cost(n) ==
        sr.cost_so_far[cur] + 1 + n[3]
          + (IF <<n[2], n[1]>> \in m.fire THEN FirePenalty
             ELSE IF <<n[2], n[1]>> \in m.smoke THEN SmokePenalty ELSE 0)
      better == { n \in neighbors :
                    \/ <<n[1], n[2]>> \notin DOMAIN sr.cost_so_far
                    \/ new_cost(n) < sr.cost_so_far[<<n[1], n[2]>>] }
      hit(c) == CHOOSE n \in better : <<n[1], n[2]>> = c
      cells == { <<n[1], n[2]>> : n \in better }
      popped == [sr EXCEPT !.frontier = @ \ {top}, !.nodes_explored = @ + 1]
  IN  IF cur = goal THEN [popped EXCEPT !.pc = "after"]
      ELSE [popped EXCEPT
              !.cost_so_far = [ c \in (DOMAIN @) \cup cells |->
                                  IF c \in cells THEN new_cost(hit(c)) ELSE @[c] ],
              !.action_cost = [ c \in (DOMAIN @) \cup cells |->
                                  IF c \in cells THEN hit(c)[3] ELSE @[c] ],
              !.came_from = [ c \in (DOMAIN @) \cup cells |->
                                  IF c \in cells THEN cur ELSE @[c] ],
              !.frontier = @ \cup { <<new_cost(n) + heuristic(goal, <<n[1], n[2]>>), n[1], n[2]>>
                                    : n \in better } ]

\* "while current is not None": the cells from c back to the start, reversed.
RECURSIVE PathTo(_, _)
PathTo(sr, c) ==
  IF sr.came_from[c] = << >> THEN << c >>
  ELSE Append(PathTo(sr, sr.came_from[c]), c)

\* The code after the loop with "actions.reverse()" left out.
SearchReturn_ActionsBackwards(sr, goal) ==
  IF goal \notin DOMAIN sr.came_from THEN SearchEmpty(sr)
  ELSE [sr EXCEPT !.pc = "done",
                  !.path = PathTo(sr, goal),
                  !.actions = [ k \in DOMAIN PathTo(sr, goal) |->
                                  sr.action_cost[PathTo(sr, goal)[Len(PathTo(sr, goal)) + 1 - k]] ]]

\* The code after the loop.
SearchReturn(sr, goal) ==
  IF goal \notin DOMAIN sr.came_from THEN SearchEmpty(sr)
  ELSE [sr EXCEPT !.pc = "done",
                  !.path = PathTo(sr, goal),
                  !.actions = [ k \in DOMAIN PathTo(sr, goal) |->
                                  sr.action_cost[PathTo(sr, goal)[k]] ]]

\* The calls studied: a firefighter on an entry asks for the path to a victim;
\* the two opposite corners of the board; a start and a goal off the board.
Queries ==
  { [ start |-> <<6, 1>>, goal |-> <<4, 2>> ],
    [ start |-> <<6, 1>>, goal |-> <<8, 5>> ],
    [ start |-> <<1, 3>>, goal |-> <<4, 2>> ],
    [ start |-> <<0, 0>>, goal |-> <<9, 7>> ],
    [ start |-> <<-1, 3>>, goal |-> <<4, 2>> ],
    [ start |-> <<6, 1>>, goal |-> <<10, 2>> ] }

InitPlanner ==
  /\ InitModel(scenario_content)
  /\ NoPlans
  /\ query \in Queries
  /\ search = [ r \in Runs |-> [ pc |-> "idle" ] ]

\* The runs are made one after the other.
Running(r) == \A q \in Runs : q < r => search[q].pc = "done"

\* Everything but the planner study.
turnVars == << gameState, pc, current, acted, phases, refused, draws, prior, planVars >>

\* find_path with "if self.heuristic(start, goal) > 15: return [], []" left out.
FindPathCall_NoCutoff(r) ==
  /\ Running(r)
  /\ search[r].pc = "idle"
  /\ search' = [search EXCEPT ![r] =
        IF ~(InGrid(query.start[1], query.start[2]) /\ InGrid(query.goal[1], query.goal[2]))
          THEN SearchEmpty(SearchStart(query.start))
        ELSE SearchStart(query.start)]
  /\ UNCHANGED << turnVars, query >>

\* find_path is entered: validation, distance cut-off, initialisation.
\* It is the first call of the run, so the path cache holds nothing.
FindPathCall(r) ==
  /\ Running(r)
  /\ search[r].pc = "idle"
  /\ search' = [search EXCEPT ![r] =
        IF ~(InGrid(query.start[1], query.start[2]) /\ InGrid(query.goal[1], query.goal[2]))
          THEN SearchEmpty(SearchStart(query.start))
        ELSE IF heuristic(query.start, query.goal) > DistanceCutoff
          THEN SearchEmpty(SearchStart(query.start))
        ELSE SearchStart(query.start)]
  /\ UNCHANGED << turnVars, query >>

\* The loop is about to run an iteration.
InSearchLoop(r) ==
  /\ search[r].pc = "loop"
  /\ search[r].frontier # {}
  /\ search[r].nodes_explored < max_nodes

\* "if time.time() - start_time > self.max_search_time: return [], []"
FindPathExpire(r) ==
  /\ InSearchLoop(r)
  /\ search' = [search EXCEPT ![r] = SearchEmpty(@)]
  /\ UNCHANGED << turnVars, query >>

\* The iteration with "self.model.wall_damage.setdefault(wall_key, 0)" in place
\* of ".get(wall_key, 0)" in get_neighbors: looking at a wall records it.
FindPathExpand_SetDefault(r) ==
  /\ InSearchLoop(r)
  /\ search' = [search EXCEPT ![r] = SearchExpand(World, @, query.goal)]
  /\ wall_damage' =
       LET top == HeapTop(search[r].frontier)
           looked == { get_wall_key(top[3], top[2], d) : d \in
                         { d \in Dirs : /\ has_wall(World, top[3], top[2], d)
                                        /\ ~is_door(World, top[3], top[2], d)
                                        /\ ~is_perimeter(top[2], top[3]) } }
       IN  [ k \in (DOMAIN wall_damage) \cup looked |->
               IF k \in DOMAIN wall_damage THEN wall_damage[k] ELSE 0 ]
  /\ UNCHANGED << fire, smoke, poi, walls, door_states, victims_lost, victims_rescued,
                  damage_counters, mazo_pois, scenario, pos, ap, carrying,
                  assigned_entry, simulation_over, step_count, stage >>
  /\ UNCHANGED << pc, current, acted, phases, refused, draws, prior, planVars, query >>

\* The clock test passes and the iteration runs.
FindPathExpand(r) ==
  /\ InSearchLoop(r)
  /\ search' = [search EXCEPT ![r] = SearchExpand(World, @, query.goal)]
  /\ UNCHANGED << turnVars, query >>

\* The loop has ended (goal popped, frontier empty or node cap): the result is built.
FindPathReturn(r) ==
  /\ \/ search[r].pc = "after"
     \/ (search[r].pc = "loop" /\ ~InSearchLoop(r))
  /\ search' = [search EXCEPT ![r] = SearchReturn(@, query.goal)]
  /\ UNCHANGED << turnVars, query >>

NextPlanner ==
  \E r \in Runs :
    \/ FindPathCall(r)
    \/ FindPathExpire(r)
    \/ FindPathExpand(r)
    \/ FindPathReturn(r)

SpecPlanner == InitPlanner /\ [][NextPlanner]_vars


(***************************************************************************)
(* src/agentes/bombers_strat2.py: the planner-driven variant.  Its         *)
(* DirectionHelper.damage_wall and GameMechanics.propagate_explosion       *)
(* differ from those of bombers.py; flashover, knockdown, replenishment    *)
(* and the end conditions are the same code.                               *)
(***************************************************************************)
\* damage_wall of bombers_strat2.py: the hit is counted on the key of the side
\* that is hit only; destruction clears the bits of both sides.
damage_wall_s2(m, y, x, direction) ==
  LET wall_key == get_wall_key(y, x, direction)
      hits == IF wall_key \notin DOMAIN m.wall_damage THEN 1
              ELSE m.wall_damage[wall_key] + 1
      n == get_adjacent_position(x, y, direction)
      opposite_direction == get_opposite_direction(direction)
      opposite_key == get_wall_key(n[2], n[1], opposite_direction)
      m1 == [m EXCEPT !.wall_damage = DictSet(@, wall_key, hits),
                      !.damage_counters = @ + 1]
  IN  IF hits >= 2
        THEN [ destroyed |-> TRUE,
               m |-> IF InGrid(n[1], n[2])
                       THEN [m1 EXCEPT !.walls = @ \ {wall_key, opposite_key}]
                       ELSE [m1 EXCEPT !.walls = @ \ {wall_key}] ]
        ELSE [ destroyed |-> FALSE, m |-> m1 ]

\* shockwave of bombers_strat2.py.
RECURSIVE shockwave_s2(_, _, _, _)
shockwave_s2(m, row, col, direction) ==
  LET x == col + DIRECTIONS[direction + 1][1]
      y == row + DIRECTIONS[direction + 1][2]
      door_key == <<row, col, direction>>
      wall_key == get_wall_key(row, col, direction)
      isDoor == door_key \in compute_door_positions(m.scenario.doors)
      afterDoor == IF door_key \in DOMAIN m.door_states /\ m.door_states[door_key] = "cerrada"
                     THEN [m EXCEPT !.door_states = DictDel(@, door_key)]
                     ELSE m
      hitsWall == ~isDoor /\ has_wall(m, row, col, direction)
                    /\ ~is_wall_destroyed(m, row, col, direction)
      hit == damage_wall_s2(m, row, col, direction).m
      m1 == IF isDoor THEN afterDoor ELSE IF hitsWall THEN hit ELSE m
      m2 == LoseVictim(m1, y, x)
  IN  IF ~InGrid(x, y) THEN m
      ELSE IF hitsWall /\ hit.wall_damage[wall_key] < 2 THEN hit
      ELSE IF is_perimeter(x, y) THEN m1
      ELSE IF <<y, x>> \in m2.fire THEN shockwave_s2(m2, y, x, direction)
      ELSE [m2 EXCEPT !.fire = @ \cup {<<y, x>>}, !.smoke = @ \ {<<y, x>>}]

\* propagate_explosion of bombers_strat2.py: the ray loop, standing on <<x, y>>.
\* A door in the path is deleted and the ray steps on without touching the cell.
RECURSIVE ExplosionRay_s2(_, _, _, _)
ExplosionRay_s2(m, x, y, direction) ==
  LET new_x == x + DIRECTIONS[direction + 1][1]
      new_y == y + DIRECTIONS[direction + 1][2]
      door_in_path == <<y, x, direction>>
      wall == has_wall(m, y, x, direction)
      wall_destroyed == is_wall_destroyed(m, y, x, direction)
      hit == damage_wall_s2(m, y, x, direction)
      m2 == IF wall /\ ~wall_destroyed THEN hit.m ELSE m
      m3 == LoseVictim(m2, new_y, new_x)
      c == <<new_y, new_x>>
  IN  IF ~InGrid(new_x, new_y) THEN m
      ELSE IF is_perimeter(new_x, new_y) THEN m
      ELSE IF door_in_path \in compute_door_positions(m.scenario.doors)
        THEN ExplosionRay_s2(DestroyDoorKey(m, door_in_path), new_x, new_y, direction)
      ELSE IF wall /\ ~wall_destroyed /\ ~hit.destroyed THEN m2
      ELSE IF c \in m3.smoke
        THEN ExplosionRay_s2([m3 EXCEPT !.smoke = @ \ {c}, !.fire = @ \cup {c}],
                             new_x, new_y, direction)
      ELSE IF c \notin m3.fire
        THEN ExplosionRay_s2([m3 EXCEPT !.fire = @ \cup {c}], new_x, new_y, direction)
      ELSE shockwave_s2(m3, new_y, new_x, direction)

propagate_explosion_s2(m, row, col, direction) ==
  ExplosionRay_s2(IF direction = NORTH THEN DestroyOriginDoors(m, row, col, 0) ELSE m,
                  col, row, direction)

RECURSIVE Explosion_s2(_, _, _, _)
Explosion_s2(m, row, col, direction) ==
  IF direction > 3 THEN m
  ELSE Explosion_s2(propagate_explosion_s2(m, row, col, direction), row, col, direction + 1)

\* The ignition roll of advance_fire of bombers_strat2.py.
IgnitionRoll_s2(m, random_row, random_col) ==
  LET c == <<random_row, random_col>>
  IN  IF c \notin m.fire /\ c \notin m.smoke
        THEN [m EXCEPT !.smoke = @ \cup {c}]
      ELSE IF c \notin m.fire /\ c \in m.smoke
        THEN LoseVictim([m EXCEPT !.fire = @ \cup {c}, !.smoke = @ \ {c}],
                        random_row, random_col)
      ELSE Explosion_s2(m, random_row, random_col, 0)

(***************************************************************************)
(* AStarPathfinder.find_path as one call, with its cache.                  *)
(***************************************************************************)
\* The loop of find_path run to its end, the clock test passing every time.
RECURSIVE RunSearch(_, _, _)
RunSearch(m, sr, goal) ==
  IF sr.pc = "loop" /\ sr.frontier # {} /\ sr.nodes_explored < max_nodes
    THEN RunSearch(m, SearchExpand(m, sr, goal), goal)
    ELSE SearchReturn(sr, goal)

\* _is_path_valid
is_path_valid(m, path) ==
  /\ path # << >>
  /\ \A k \in DOMAIN path : <<path[k][2], path[k][1]>> \notin m.fire

\* The end of find_path on the locals sr of a search that has ended: nothing
\* is found, or the path is stored in the cache and returned.
FoundPath(cache, path_key, sr) ==
  IF sr.path = << >>
    THEN [ path |-> << >>, actions |-> << >>, cache |-> cache ]
    ELSE [ path |-> sr.path, actions |-> sr.actions,
           cache |-> DictSet(cache, path_key, [ path |-> sr.path, actions |-> sr.actions ]) ]

\* find_path with the "_is_path_valid" test left out: a cached path is
\* returned whatever burns on it.
find_path_AnyCached(m, cache, start, goal, late) ==
  LET path_key == <<start, goal>>
      empty == [ path |-> << >>, actions |-> << >>, cache |-> cache ]
  IN  IF ~(InGrid(start[1], start[2]) /\ InGrid(goal[1], goal[2])) THEN empty
      ELSE IF path_key \in DOMAIN cache
        THEN [ path |-> cache[path_key].path, actions |-> cache[path_key].actions,
               cache |-> cache ]
      ELSE IF heuristic(start, goal) > DistanceCutoff THEN empty
      ELSE IF late THEN empty
      ELSE FoundPath(cache, path_key, RunSearch(m, SearchStart(start), goal))

\* find_path(start, goal): the path, its actions and the cache after the call.
\* late: the clock test of the loop fails during this call.
find_path(m, cache, start, goal, late) ==
  LET path_key == <<start, goal>>
      empty == [ path |-> << >>, actions |-> << >>, cache |-> cache ]
  IN  IF ~(InGrid(start[1], start[2]) /\ InGrid(goal[1], goal[2])) THEN empty
      ELSE IF path_key \in DOMAIN cache /\ is_path_valid(m, cache[path_key].path)
        THEN [ path |-> cache[path_key].path, actions |-> cache[path_key].actions,
               cache |-> cache ]
      ELSE IF heuristic(start, goal) > DistanceCutoff THEN empty
      ELSE IF late THEN empty
      ELSE FoundPath(cache, path_key, RunSearch(m, SearchStart(start), goal))

(***************************************************************************)
(* FirefighterAgent of bombers_strat2.py.  pl is the agent's plan: a       *)
(* record of current_path, path_actions, current_target and the cache of   *)
(* its pathfinder.                                                         *)
(***************************************************************************)
VictimRange == 8

\* sorted(..., key=distance): a stable sort of a list of <<x, y, dist>>.
RECURSIVE SortByDist(_)
SortByDist(s) ==
  IF s = << >> THEN << >>
  ELSE LET j == CHOOSE j \in DOMAIN s :
                  \A k \in DOMAIN s : s[j][3] < s[k][3] \/ (s[j][3] = s[k][3] /\ j <= k)
       IN  << s[j] >> \o SortByDist(ListPop(s, j))

\* s[:2]
FirstTwo(s) == SubSeq(s, 1, Min(2, Len(s)))

\* "for ... in candidates[:2]: path, actions = find_path(...); if path: return ..."
\* TryTarget is the body of the loop, r the result of its find_path call.
RECURSIVE TryTargets(_, _, _, _, _, _)
TryTarget(m, start, candidates, kind, late, r) ==
  IF r.path # << >>
    THEN [ target |-> <<Head(candidates)[1], Head(candidates)[2], kind>>,
           path |-> r.path, actions |-> r.actions, cache |-> r.cache ]
    ELSE TryTargets(m, r.cache, start, Tail(candidates), kind, late)

TryTargets(m, cache, start, candidates, kind, late) ==
  IF candidates = << >>
    THEN [ target |-> "None", path |-> << >>, actions |-> << >>, cache |-> cache ]
    ELSE TryTarget(m, start, candidates, kind, late,
                   find_path(m, cache, start,
                             <<Head(candidates)[1], Head(candidates)[2]>>, late))

\* The offsets of the search for a burning neighbour, in the order of the code.
FireOffsets == << <<0, 1>>, <<1, 0>>, <<0, -1>>, <<-1, 0>> >>

\* "Buscar fuego cercano si no hay víctimas accesibles": found is what the
\* search for an exit or a victim has returned.
OrNearbyFire(m, i, found) ==
  LET current_pos == m.pos[i]
      burning == { k \in DOMAIN FireOffsets :
                     LET new_x == current_pos[1] + FireOffsets[k][1]
                         new_y == current_pos[2] + FireOffsets[k][2]
                     IN  InGrid(new_x, new_y) /\ <<new_y, new_x>> \in m.fire }
      first == CHOOSE k \in burning : \A j \in burning : k <= j
      new_pos == << current_pos[1] + FireOffsets[first][1],
                    current_pos[2] + FireOffsets[first][2] >>
  IN  IF m.carrying[i] \/ found.target # "None" \/ burning = {} THEN found
      ELSE [ target |-> <<new_pos[1], new_pos[2], "fire">>,
             path |-> << current_pos, new_pos >>, actions |-> <<0, 0>>,
             cache |-> found.cache ]

find_nearest_target(m, i, cache, late) ==
  LET current_pos == m.pos[i]
      dist(x, y) == Abs(x - current_pos[1]) + Abs(y - current_pos[2])
      entries == [ k \in DOMAIN m.scenario.entries |->
                    << m.scenario.entries[k][2], m.scenario.entries[k][1],
                       dist(m.scenario.entries[k][2], m.scenario.entries[k][1]) >> ]
      near == SelectSeq(m.scenario.pois,
                        LAMBDA p : p[3] = "v" /\ dist(p[2], p[1]) < VictimRange)
      victims == [ k \in DOMAIN near |->
                    << near[k][2], near[k][1], dist(near[k][2], near[k][1]) >> ]
      \* the two nearest exits when carrying, else the two nearest victims
      candidates == FirstTwo(SortByDist(IF m.carrying[i] THEN entries ELSE victims))
  IN  OrNearbyFire(m, i,
        TryTargets(m, cache, current_pos, candidates,
                   IF m.carrying[i] THEN "exit" ELSE "victim", late))

\* _calculate_movement_cost
calculate_movement_cost(m, i, next_pos) ==
  IF m.carrying[i] THEN 2
  ELSE IF <<next_pos[2], next_pos[1]>> \in m.fire THEN 2
  ELSE 1

\* _perform_movement_to: the model after the call and the value returned.
perform_movement_to(m, i, new_pos) ==
  LET ap_cost == calculate_movement_cost(m, i, new_pos)
  IN  IF ~InGrid(new_pos[1], new_pos[2]) THEN [ m |-> m, success |-> FALSE ]
      ELSE IF m.ap[i] >= ap_cost
        THEN [ m |-> [m EXCEPT !.pos[i] = new_pos, !.ap[i] = @ - ap_cost],
               success |-> TRUE ]
      ELSE [ m |-> m, success |-> FALSE ]

\* "6. Operaciones con puertas": the first direction whose door can be toggled.
TogglableDoors(m, i) ==
  { direction \in Dirs :
      /\ is_door(m, m.pos[i][2], m.pos[i][1], direction)
      /\ m.ap[i] >= 1
      /\ get_door_state(m, m.pos[i][2], m.pos[i][1], direction) \in {"open", "closed"} }

\* "7. Operaciones con paredes": the loop over the directions, from direction on.
RECURSIVE WallLoop(_, _, _)
WallLoop(m, i, direction) ==
  LET x == m.pos[i][1]
      y == m.pos[i][2]
      hit == damage_wall_s2(m, y, x, direction)
  IN  IF direction > 3 THEN [ m |-> m, success |-> FALSE ]
      ELSE IF has_wall(m, y, x, direction) /\ ~is_perimeter(x, y) /\ m.ap[i] >= 2
        THEN (IF hit.destroyed
                THEN [ m |-> [hit.m EXCEPT !.ap[i] = @ - 2], success |-> TRUE ]
                ELSE WallLoop(hit.m, i, direction + 1))
      ELSE WallLoop(m, i, direction + 1)

\* _perform_other_actions: the model after the call and the value returned.
perform_other_actions(m, i) ==
  LET x == m.pos[i][1]
      y == m.pos[i][2]
      here == <<y, x>>
      token == IF here \in DOMAIN m.poi THEN m.poi[here] ELSE "None"
      doors == TogglableDoors(m, i)
      direction == CHOOSE d \in doors : \A e \in doors : d <= e
      door_state == get_door_state(m, y, x, direction)
  IN  IF ~m.carrying[i] /\ token = "v" /\ m.ap[i] >= 2
        THEN [ m |-> [m EXCEPT !.carrying[i] = TRUE,
                               !.poi = DictDel(@, here),
                               !.scenario.pois = PopPoiAt(@, y, x),
                               !.ap[i] = @ - 2],
               success |-> TRUE ]
      ELSE IF m.carrying[i] /\ is_entry(m, x, y)
        THEN [ m |-> [m EXCEPT !.carrying[i] = FALSE,
                               !.victims_rescued = @ + 1,
                               !.ap[i] = 0],
               success |-> TRUE ]
      ELSE IF here \in m.fire /\ m.ap[i] >= 2
        THEN [ m |-> [m EXCEPT !.fire = @ \ {here}, !.smoke = @ \cup {here},
                               !.ap[i] = @ - 2],
               success |-> TRUE ]
      ELSE IF here \in m.smoke /\ m.ap[i] >= 2
        THEN [ m |-> [m EXCEPT !.smoke = @ \ {here}, !.ap[i] = @ - 2],
               success |-> TRUE ]
      ELSE IF token = "f"
        THEN [ m |-> [m EXCEPT !.poi = DictDel(@, here),
                               !.scenario.pois = PopPoiAt(@, y, x),
                               !.ap[i] = 0],
               success |-> TRUE ]
      ELSE IF doors # {}
        THEN [ m |-> [m EXCEPT !.door_states =
                          DictSet(@, <<y, x, direction>>,
                                  IF door_state = "open" THEN "closed" ELSE "open"),
                               !.ap[i] = @ - 1],
               success |-> TRUE ]
      ELSE WallLoop(m, i, 0)

\* "Convertir diferencia a dirección": -1 stands for None.
StepDirection(from, to) ==
  LET dx == to[1] - from[1]
      dy == to[2] - from[2]
  IN  IF dx = 1 THEN EAST
      ELSE IF dx = -1 THEN WEST
      ELSE IF dy = 1 THEN SOUTH
      ELSE IF dy = -1 THEN NORTH
      ELSE -1

\* _perform_obstacle_action: the model after the call and the value returned.
perform_obstacle_action(m, i, next_pos) ==
  LET current_x == m.pos[i][1]
      current_y == m.pos[i][2]
      direction == StepDirection(m.pos[i], next_pos)
      hit == damage_wall_s2(m, current_y, current_x, direction)
  IN  IF direction = -1 THEN [ m |-> m, success |-> FALSE ]
      ELSE IF /\ is_door(m, current_y, current_x, direction)
              /\ get_door_state(m, current_y, current_x, direction) = "closed"
              /\ m.ap[i] >= 1
        THEN [ m |-> [m EXCEPT !.door_states =
                          DictSet(@, <<current_y, current_x, direction>>, "open"),
                               !.ap[i] = @ - 1],
               success |-> TRUE ]
      ELSE IF /\ has_wall(m, current_y, current_x, direction)
              /\ ~is_perimeter(current_x, current_y)
              /\ m.ap[i] >= 2
        THEN (IF hit.destroyed
                THEN [ m |-> [hit.m EXCEPT !.ap[i] = @ - 2], success |-> TRUE ]
                ELSE [ m |-> hit.m, success |-> FALSE ])
      ELSE [ m |-> m, success |-> FALSE ]

\* The end of an iteration of the loop of step when the hop is not made:
\* other is what _perform_other_actions has returned.
AfterOtherActions(pl, other) ==
  IF other.success
    THEN [ m |-> other.m,
           pl |-> [pl EXCEPT !.current_path = << >>, !.current_target = "None"],
           leave |-> FALSE ]
    ELSE [ m |-> other.m, pl |-> pl, leave |-> TRUE ]

\* "Luego intentar el movimiento": the hop to current_path[1] if the path has
\* one and the AP suffice, else _perform_other_actions.
MoveOrAct(m, i, pl) ==
  LET hop == Len(pl.current_path) > 1
      next_pos == pl.current_path[2]
      ap_cost == calculate_movement_cost(m, i, next_pos)
  IN  IF hop /\ m.ap[i] >= ap_cost /\ perform_movement_to(m, i, next_pos).success
        THEN [ m |-> perform_movement_to(m, i, next_pos).m,
               pl |-> [pl EXCEPT !.current_path = Tail(@), !.path_actions = Tail(@)],
               leave |-> FALSE ]
        ELSE AfterOtherActions(pl, perform_other_actions(m, i))

\* "if action_cost > 0: success = self._perform_obstacle_action(next_pos)":
\* o is what the call has returned (success, if no call was due).
AfterObstacle(i, pl, o) ==
  IF ~o.success
    THEN [ m |-> o.m, pl |-> [pl EXCEPT !.current_path = << >>], leave |-> FALSE ]
    ELSE MoveOrAct(o.m, i, pl)

\* An iteration of the loop once the plan pl is settled.
FollowPlan(m, i, pl, replan) ==
  IF replan /\ pl.current_target = "None"
    THEN [ m |-> m, pl |-> pl, leave |-> TRUE ]
    ELSE AfterObstacle(i, pl,
           IF Len(pl.current_path) > 1 /\ pl.path_actions[2] > 0
             THEN perform_obstacle_action(m, i, pl.current_path[2])
             ELSE [ m |-> m, success |-> TRUE ])

\* "self.current_target, self.current_path, self.path_actions = ..."
Replanned(t) ==
  [ current_target |-> t.target, current_path |-> t.path,
    path_actions |-> t.actions, path_cache |-> t.cache ]

\* One iteration of "while self.ap > 0" of FirefighterAgent.step: the model and
\* the plan after it, and whether the loop was left by "break".
LoopBody(m, i, pl, late) ==
  FollowPlan(m, i,
             IF Len(pl.current_path) <= 1
               THEN Replanned(find_nearest_target(m, i, pl.path_cache, late))
               ELSE pl,
             Len(pl.current_path) <= 1)

(***************************************************************************)
(* FireRescueModel.step of bombers_strat2.py, phase by phase.  The phases  *)
(* whose code is that of bombers.py (flashover, knockdown, AP recovery,    *)
(* replenishment, end conditions, the refused call) are the actions above. *)
(***************************************************************************)
\* The plan of agent i.
Plan(i) ==
  [ current_path |-> current_path[i], path_actions |-> path_actions[i],
    current_target |-> current_target[i], path_cache |-> path_cache[i] ]

\* What the turn machine of bombers_strat2.py leaves alone.
strat2Frame == << draws, query, search >>

\* step is called and the run is not over: the turn starts.
Strat2StepBegin ==
  /\ pc = "idle"
  /\ ~simulation_over
  /\ step_count < MaxTurnsStrat2
  /\ step_count' = step_count + 1
  /\ stage' = IF stage = 0 THEN 1 ELSE stage
  /\ pc' = "agents"
  /\ current' = 0
  /\ acted' = {}
  /\ phases' = <<>>
  /\ UNCHANGED << fire, smoke, poi, walls, door_states, wall_damage, victims_lost,
                  victims_rescued, damage_counters, mazo_pois, scenario, pos, ap,
                  carrying, assigned_entry, simulation_over, refused >>
  /\ UNCHANGED << strat2Frame, planVars >>
  /\ Forget

\* "for agent in self.schedule.agents": the agents step in list order.
Strat2Scheduled(i) ==
  /\ pc = "agents"
  /\ \/ current = i
     \/ (current = 0 /\ i \notin acted /\ \A j \in FF : j < i => j \in acted)

\* First activation: the agent is moved onto its entry and its step returns.
Strat2AgentEnter(i) ==
  /\ Strat2Scheduled(i)
  /\ stage = 1 /\ assigned_entry[i] # <<>>
  /\ pos' = [pos EXCEPT ![i] = assigned_entry[i]]
  /\ assigned_entry' = [assigned_entry EXCEPT ![i] = <<>>]
  /\ current' = 0
  /\ acted' = acted \cup {i}
  /\ UNCHANGED << fire, smoke, poi, walls, door_states, wall_damage, victims_lost,
                  victims_rescued, damage_counters, mazo_pois, scenario, ap,
                  carrying, simulation_over, step_count, stage, pc, phases, refused >>
  /\ UNCHANGED << strat2Frame, planVars >>
  /\ Forget

\* The outcome r of an iteration of the loop of step is stored; the loop is
\* left on "break" or when no action points remain.
Strat2Iterate(i, r) ==
  LET left == r.leave \/ r.m.ap[i] <= 0
  IN  /\ Apply(r.m)
      /\ current_path' = [current_path EXCEPT ![i] = r.pl.current_path]
      /\ path_actions' = [path_actions EXCEPT ![i] = r.pl.path_actions]
      /\ current_target' = [current_target EXCEPT ![i] = r.pl.current_target]
      /\ path_cache' = [path_cache EXCEPT ![i] = r.pl.path_cache]
      /\ current' = IF left THEN 0 ELSE i
      /\ acted' = IF left THEN acted \cup {i} ELSE acted
      /\ iters' = IF left THEN 0 ELSE iters + 1
      /\ expired' = IF r.late THEN expired + 1 ELSE expired

\* An outcome of an iteration, with whether the clock cut its search short.
Outcome(r, late) == [ m |-> r.m, pl |-> r.pl, leave |-> r.leave, late |-> late ]

\* outcome[late] is the iteration run with the clock test of find_path
\* passing (late FALSE) or failing: the second is kept while the bound allows
\* and if the iteration searches at all.
DistinctOutcomes(outcome) ==
  { Outcome(outcome[late], late) :
      late \in { l \in BOOLEAN :
                   l => (expired < MaxExpired /\ outcome[TRUE] # outcome[FALSE]) } }

\* The outcomes of the iteration agent i runs now.
IterationOutcomes(i) ==
  DistinctOutcomes([ late \in BOOLEAN |-> LoopBody(World, i, Plan(i), late) ])

\* "while self.ap > 0": one iteration of the loop of agent i, or the return of
\* step when the loop is not entered.
Strat2AgentLoop(i) ==
  /\ Strat2Scheduled(i)
  /\ ~(stage = 1 /\ assigned_entry[i] # <<>>)
  /\ iters < MaxIters
  /\ IF ap[i] > 0
       THEN \E r \in IterationOutcomes(i) : Strat2Iterate(i, r)
       ELSE /\ current' = 0
            /\ acted' = acted \cup {i}
            /\ UNCHANGED << fire, smoke, poi, walls, door_states, wall_damage,
                            victims_lost, victims_rescued, damage_counters, mazo_pois,
                            scenario, pos, ap, carrying, planVars >>
  /\ UNCHANGED << assigned_entry, simulation_over, step_count, stage, pc, phases, refused >>
  /\ UNCHANGED strat2Frame
  /\ Forget

\* The agents have stepped: "if self.step_count > 1" guards the fire phase.
Strat2AgentsDone ==
  /\ pc = "agents"
  /\ current = 0
  /\ acted = FF
  /\ pc' = IF step_count > 1 THEN "fire" ELSE "recover"
  /\ phases' = Append(phases, "agents")
  /\ UNCHANGED << gameState, current, acted, refused >>
  /\ UNCHANGED << strat2Frame, planVars >>
  /\ Forget

\* advance_fire of bombers_strat2.py, first half: the ignition roll.
Strat2AdvanceFireRoll ==
  /\ pc = "fire"
  /\ \E c \in IgnitionChoices : Apply(IgnitionRoll_s2(World, c[1], c[2]))
  /\ pc' = "flashover"
  /\ UNCHANGED << assigned_entry, simulation_over, step_count, stage, current, acted,
                  phases, refused >>
  /\ UNCHANGED << strat2Frame, planVars >>
  /\ Record("roll")

NextStrat2 ==
  \/ Strat2StepBegin
  \/ StepRefused
  \/ \E i \in FF : Strat2AgentEnter(i)
  \/ \E i \in FF : Strat2AgentLoop(i)
  \/ Strat2AgentsDone
  \/ Strat2AdvanceFireRoll
  \/ AdvanceFireFlashover
  \/ CheckFirefighters
  \/ RecoverAp
  \/ ReplenishPois
  \/ CheckEnd

SpecStrat2 == Init /\ [][NextStrat2]_vars


(***************************************************************************)
(* Properties.                                                             *)
(***************************************************************************)
\* The key of the same wall segment seen from the neighbouring cell.
MirrorKey(k) ==
  LET n == get_adjacent_position(k[2], k[1], k[3])
  IN  get_wall_key(n[2], n[1], get_opposite_direction(k[3]))

\* C1: the damage counter kept for any wall segment is at most 2, and whenever
\* it is 2 the wall bit is cleared on the cell and on its mirrored neighbour.
WallDamageBounded ==
  \A k \in DOMAIN wall_damage :
    /\ wall_damage[k] <= 2
    /\ wall_damage[k] = 2 => (k \notin walls /\ MirrorKey(k) \notin walls)

\* A wall whose bit was set on both cells has taken its second hit.
WallDestroyed ==
  \E k \in DOMAIN wall_damage :
    /\ wall_damage[k] = 2
    /\ k \in scenario_content.grid_walls
    /\ MirrorKey(k) \in scenario_content.grid_walls

\* The direction that leads from cell a to the adjacent cell b (cells <<row, col>>).
DirectionTo(a, b) ==
  CHOOSE d \in Dirs : get_adjacent_position(a[2], a[1], d) = <<b[2], b[1]>>

\* C2: for every door between two adjacent cells A and B, get_door_state asked
\* from A towards B returns the same value as asked from B towards A.
DoorSidesAgree ==
  \A p \in scenario.doors :
    get_door_state(World, p[1][1], p[1][2], DirectionTo(p[1], p[2]))
      = get_door_state(World, p[2][1], p[2][2], DirectionTo(p[2], p[1]))

\* C3: no cell has both its fire flag and its smoke flag set.
FireSmokeExclusive == fire \cap smoke = {}

\* Two turns have been processed, fire is burning, and a cell that burned at
\* the start now holds smoke.
BurningCellTurnedToSmoke ==
  /\ step_count = 2
  /\ pc = "idle"
  /\ fire # {}
  /\ \E c \in smoke : c \in scenario_content.fires \cup DrillScenario.fires

\* The tokens of type t lying on the board.
OnBoard(t) == Cardinality({ c \in DOMAIN poi : poi[c] = t })

Carried == Cardinality({ i \in FF : carrying[i] })

\* C4: rescued + lost + active POIs + deck never exceeds the supply of 15
\* tokens; the victim tokens in existence (on the board, carried, in the deck,
\* rescued or lost) never exceed 10 and the false-alarm tokens never exceed 5.
TokenSupplyRespected ==
  /\ victims_rescued + victims_lost + Len(scenario.pois) + DeckSize(mazo_pois)
       <= VictimSupply + FalseAlarmSupply
  /\ OnBoard("v") + Carried + mazo_pois.v + victims_rescued + victims_lost <= VictimSupply
  /\ OnBoard("f") + mazo_pois.f <= FalseAlarmSupply

\* C5: once simulation_over is true, a call of step changes neither the turn
\* counter, the grid, the wall damage, the door table, the deck, the counters
\* nor any firefighter's position, AP or carrying flag.
TerminalIsFrozen == [][simulation_over => UNCHANGED gameState]_vars

\* step has been called on a terminal run.
CallAfterTermination == simulation_over /\ refused >= 1

IsPrefix(s, t) == Len(s) <= Len(t) /\ \A k \in DOMAIN s : s[k] = t[k]

FirstTurnSkipsFire ==
  step_count = 1 =>
    /\ "fire" \notin Range(phases)
    /\ "knockdown" \notin Range(phases)
    /\ pc = "agents" =>
         \A i \in FF : /\ ap[i] = InitialAp
                       /\ ~carrying[i]
                       /\ pos[i] \in { ExteriorOf(scenario, i),
                                       <<EntryOf(scenario, i)[2], EntryOf(scenario, i)[1]>> }

\* A wall segment between an interior cell and a perimeter cell (or on the
\* outer side of a perimeter cell).
PerimeterSegment(k) ==
  LET n == get_adjacent_position(k[2], k[1], k[3])
  IN  is_perimeter(k[2], k[1]) \/ ~InGrid(n[1], n[2]) \/ is_perimeter(n[1], n[2])

\* C10: no perimeter wall segment is ever damaged: none has a damage counter
\* and none has lost its wall bit.
PerimeterWallsIntact ==
  /\ \A k \in DOMAIN wall_damage : ~PerimeterSegment(k)
  /\ \A k \in scenario_content.grid_walls : PerimeterSegment(k) => k \in walls


\* C7: two runs that start from the same scenario and are fed the same random
\* draws hold the same agent state: the path and the path actions a firefighter
\* gets from find_path for the same start and goal on the same grid are the
\* same in both runs.
RunsAgree ==
  (\A r \in Runs : search[r].pc = "done")
    => /\ search[1].path = search[2].path
       /\ search[1].actions = search[2].actions


Cells == (0..Rows-1) \X (0..Cols-1)

\* The neighbour of cell c in a direction, as <<row, column>>.
Neighbour(c, direction) ==
  LET n == get_adjacent_position(c[2], c[1], direction) IN <<n[2], n[1]>>

\* In model m cell c has a burning neighbour behind a side that is traversable
\* seen from at least one of the two cells.
NextToFire(m, c) ==
  \E direction \in Dirs :
    /\ Neighbour(c, direction) \in Cells \cap m.fire
    /\ \/ can_pass_wall(m, c[1], c[2], direction)
       \/ can_pass_wall(m, Neighbour(c, direction)[1], Neighbour(c, direction)[2],
                        get_opposite_direction(direction))

\* In model m cell c has a burning neighbour behind a side that is traversable
\* seen from both cells.
OpenToFire(m, c) ==
  \E direction \in Dirs :
    /\ Neighbour(c, direction) \in Cells \cap m.fire
    /\ can_pass_wall(m, c[1], c[2], direction)
    /\ can_pass_wall(m, Neighbour(c, direction)[1], Neighbour(c, direction)[2],
                     get_opposite_direction(direction))

\* C12 (as the code has it): in one flashover pass a cell turns to fire only
\* if it held smoke at the start of the pass and is adjacent through a
\* traversable side to a cell on fire at the start of the pass; a cell off the
\* perimeter with neither fire nor smoke that is adjacent through a traversable
\* side to fire ends the pass holding smoke, never fire.
FlashoverOneHopInside ==
  prior.op = "flashover" =>
    /\ \A c \in fire \ prior.m.fire : c \in prior.m.smoke /\ NextToFire(prior.m, c)
    /\ \A c \in Cells :
         (/\ ~is_perimeter(c[2], c[1])
          /\ c \notin prior.m.fire \cup prior.m.smoke
          /\ OpenToFire(prior.m, c))
           => c \in smoke \ fire

\* A pass that turned a smoke cell to fire and put smoke on an empty cell.
FlashoverSpread ==
  /\ prior.op = "flashover"
  /\ fire \ prior.m.fire # {}
  /\ \E c \in smoke \ prior.m.smoke : OpenToFire(prior.m, c)

\* C12 (as stated): in one flashover pass a cell turns to fire only if it held
\* smoke at the start of the pass and is adjacent through a traversable side to
\* a cell on fire at the start of the pass; any cell with neither fire nor
\* smoke that is adjacent to fire ends the pass holding smoke, never fire.
FlashoverOneHop ==
  prior.op = "flashover" =>
    /\ \A c \in fire \ prior.m.fire : c \in prior.m.smoke /\ NextToFire(prior.m, c)
    /\ \A c \in Cells :
         (c \notin prior.m.fire \cup prior.m.smoke /\ OpenToFire(prior.m, c))
           => c \in smoke \ fire

\* The number of entries the list new_fires of model m holds for cell c.
EntriesFor(m, c) == Cardinality({ h \in new_fires(m) : FlashoverTarget(h) = c })

\* The victims standing on the cells a flashover pass sets on fire.
VictimsCaught ==
  { c \in fire \ prior.m.fire : c \in DOMAIN prior.m.poi /\ prior.m.poi[c] = "v" }

\* C13: when a flashover pass converts a smoke cell that holds a victim,
\* victims_lost grows by exactly 1 for that cell, however many burning
\* neighbours reach it, and the POI is removed from the cell and from the
\* active-POI list.
FlashoverLosesVictimOnce ==
  prior.op = "flashover" =>
    /\ victims_lost = prior.m.victims_lost + Cardinality(VictimsCaught)
    /\ \A c \in VictimsCaught :
         /\ c \notin DOMAIN poi
         /\ \A k \in DOMAIN scenario.pois :
              <<scenario.pois[k][1], scenario.pois[k][2]>> # c
    /\ Len(scenario.pois) = Len(prior.m.scenario.pois) - Cardinality(VictimsCaught)

\* A victim on a smoke cell was caught by a pass in which two or more burning
\* neighbours reached the cell.
VictimReachedTwice ==
  /\ prior.op = "flashover"
  /\ \E c \in VictimsCaught : EntriesFor(prior.m, c) >= 2

\* The cells a ray of propagate_explosion can stand on and look from in a
\* direction: burning cells off the perimeter whose neighbour is off the perimeter.
RayStands(c, direction) ==
  /\ c \in fire
  /\ ~is_perimeter(c[2], c[1])
  /\ Neighbour(c, direction) \in Cells
  /\ ~is_perimeter(Neighbour(c, direction)[2], Neighbour(c, direction)[1])

Damage(k) == IF k \in DOMAIN wall_damage THEN wall_damage[k] ELSE 0

\* C14: when an explosion ray meets an intact non-perimeter wall with no prior
\* damage, the wall is left with damage 1 and still present on both sides, the
\* ray stops, and no cell changes its fire, smoke or POI state.
FreshWallStopsRay ==
  \A c \in Cells : \A direction \in Dirs :
    (/\ RayStands(c, direction)
     /\ has_wall(World, c[1], c[2], direction)
     /\ Damage(<<c[1], c[2], direction>>) = 0
     /\ Damage(MirrorKey(<<c[1], c[2], direction>>)) = 0)
      => LET after == ExplosionRay(World, c[2], c[1], direction)
         IN  /\ after.wall_damage[<<c[1], c[2], direction>>] = 1
             /\ after.walls = walls
             /\ after.fire = fire
             /\ after.smoke = smoke
             /\ after.poi = poi
             /\ after.victims_lost = victims_lost

\* An ignition roll on a burning cell sent a ray against an undamaged wall whose
\* bit is set on both cells: the wall stands with damage 1 and the cell behind
\* it is as it was.
RayStoppedByFreshWall ==
  /\ prior.op = "roll"
  /\ \E k \in walls :
       /\ <<k[1], k[2]>> \in prior.m.fire
       /\ MirrorKey(k) \in walls
       /\ k \notin DOMAIN prior.m.wall_damage
       /\ MirrorKey(k) \notin DOMAIN prior.m.wall_damage
       /\ Damage(k) = 1
       /\ <<MirrorKey(k)[1], MirrorKey(k)[2]>> \notin fire \cup smoke

\* C15: when an explosion ray meets a wall that already has damage 1,
\* whichever side the earlier hit came from, the wall reaches damage 2, its
\* bit is removed from both mirrored cells, and the ray continues and ignites
\* the next cell.
SecondHitDestroysWall ==
  \A c \in Cells : \A direction \in Dirs :
    (/\ RayStands(c, direction)
     /\ has_wall(World, c[1], c[2], direction)
     /\ \/ Damage(<<c[1], c[2], direction>>) = 1
        \/ Damage(MirrorKey(<<c[1], c[2], direction>>)) = 1)
      => LET after == ExplosionRay(World, c[2], c[1], direction)
         IN  /\ after.wall_damage[<<c[1], c[2], direction>>] = 2
             /\ <<c[1], c[2], direction>> \notin after.walls
             /\ MirrorKey(<<c[1], c[2], direction>>) \notin after.walls
             /\ Neighbour(c, direction) \in after.fire

\* replenish_pois was called (by the model's step, or by an agent completing a
\* rescue) with exactly 2 active POIs, a deck that is not empty and a cell that
\* accepts whichever token is drawn.
ReplenishedFromTwo ==
  /\ prior.op = "replenish"
  /\ Len(prior.m.scenario.pois) = 2
  /\ DeckSize(prior.m.mazo_pois) > 0
  /\ \A t \in DeckTypes(prior.m.mazo_pois) : AcceptingCells(prior.m, t) # {}

\* C16: a call of replenish_pois with exactly 2 active POIs, a non-empty deck
\* and at least one legal placement cell ends with exactly 3 active POIs and
\* a deck one token smaller.
ReplenishRestoresThree ==
  ReplenishedFromTwo =>
    /\ Len(scenario.pois) = 3
    /\ DeckSize(mazo_pois) = DeckSize(prior.m.mazo_pois) - 1

\* C17: after check_firefighters_in_fire no firefighter stands on a fire
\* cell; each firefighter that stood on fire is on the safe cell with 0 action
\* points and carries nothing; victims_lost has grown by exactly the number of
\* those firefighters that were carrying.
KnockdownClearsFirefighters ==
  prior.op = "knockdown" =>
    /\ \A i \in FF : <<pos[i][2], pos[i][1]>> \notin fire
    /\ \A i \in InjuredFirefighters(prior.m) :
         pos[i] = ambulance_pos /\ ap[i] = 0 /\ ~carrying[i]
    /\ victims_lost = prior.m.victims_lost
         + Cardinality({ i \in InjuredFirefighters(prior.m) : prior.m.carrying[i] })

\* What an action of a firefighter may touch besides the firefighter itself.
Structure(m) ==
  << m.ap, m.walls, m.wall_damage, m.damage_counters, m.door_states, m.fire, m.smoke >>

\* C19: an illegal or unaffordable action is a no-op: cut_wall on a perimeter
\* wall or where there is no wall, open_close_door where there is no door, and
\* any extinguish, convert, remove-smoke, door or cut action that costs more
\* than the firefighter's action points return failure and leave the action
\* points, wall bits, wall damage, damage counter, door table and fire/smoke
\* flags unchanged.
IllegalActionsRefused ==
  \A i \in FF :
    /\ \A direction \in Dirs :
         /\ (\/ ap[i] < 2
             \/ ~has_wall(World, pos[i][2], pos[i][1], direction)
             \/ PerimeterSegment(<<pos[i][2], pos[i][1], direction>>))
              => /\ ~cut_wall_returns(World, i, direction)
                 /\ Structure(cut_wall(World, i, direction)) = Structure(World)
         /\ (ap[i] < 1 \/ ~is_door(World, pos[i][2], pos[i][1], direction))
              => /\ ~open_close_door_returns(World, i, direction)
                 /\ Structure(open_close_door(World, i, direction)) = Structure(World)
    /\ \A c \in Cells : \A type \in {"fire", "convert", "smoke"} :
         ap[i] < (IF type = "fire" THEN 2 ELSE 1)
           => /\ ~extinguish_fire_returns(World, i, c[1], c[2], type)
              /\ Structure(extinguish_fire(World, i, c[1], c[2], type)) = Structure(World)

\* Agent i, planner-driven, is moved by its step from the cell it stands on.
PlannedHop(i) ==
  /\ pc = "agents"
  /\ assigned_entry[i] = << >>
  /\ pos'[i] # pos[i]

\* C18 (as stated, for the planned path): no movement along a planned path
\* (_perform_movement_to) places a firefighter that is carrying a victim onto a
\* cell that is on fire at the moment of the move.
CarrierKeptOffFire ==
  [][\A i \in FF :
       PlannedHop(i) => ~(carrying[i] /\ <<pos'[i][2], pos'[i][1]>> \in fire)]_vars

\* An iteration of the loop of the planner-driven step has run for agent i and
\* the loop goes on.
LoopGoesOn(i) ==
  /\ pc = "agents"
  /\ assigned_entry[i] = << >>
  /\ current' = i
  /\ iters' = iters + 1

\* C20 (as stated): in the planner-driven variant every iteration of the loop
\* of FirefighterAgent.step either spends at least 1 AP or leaves the loop.
IterationSpendsOrLeaves ==
  [][\A i \in FF : LoopGoesOn(i) => ap'[i] < ap[i]]_vars

\* The models one iteration of the loop of step can leave for agent i, whatever
\* action other than "pass" is drawn from possible_actions in model m.
DrawOutcomes(m, i) ==
  perform_movement(m, i)
    \cup FireActionOutcomes(m, i)
    \cup { open_close_door(m, i, d) : d \in DoorActions(m, i) }
    \cup { cut_wall(m, i, d) : d \in CutActions(m, i) }

\* possible_actions holds an action whose execution spends action points.
SpendingOffered(m, i) == \E m2 \in DrawOutcomes(m, i) : m2.ap[i] < m.ap[i]

\* C21: in the random-action variant, in every reachable state in which the
\* loop of FirefighterAgent.step draws an action (ap > 0), possible_actions
\* holds an action that spends AP or "pass", and every iteration that is not
\* left by "pass" leaves the model as it was or lowers the agent's AP: the loop
\* cannot be stuck with only a "move" that always fails.
LoopNeverStuck ==
  \A i \in FF :
    Choosing(i) =>
      /\ \/ SpendingOffered(PoiCheck(World, i), i)
         \/ PassOffered(PoiCheck(World, i), i)
      /\ \A m2 \in DrawOutcomes(PoiCheck(World, i), i) :
           m2.ap[i] < ap[i] \/ m2 = PoiCheck(World, i)

\* The drawn "move" can only fail and no other action spends AP: "pass" alone
\* ends the loop.
OnlyPassEndsLoop ==
  \E i \in FF :
    /\ Choosing(i)
    /\ Movements(PoiCheck(World, i), i) = {}
    /\ ~SpendingOffered(PoiCheck(World, i), i)
    /\ PassOffered(PoiCheck(World, i), i)

\* find_path was called with a start or a goal off the grid.
OffGrid(q) ==
  ~(InGrid(q.start[1], q.start[2]) /\ InGrid(q.goal[1], q.goal[2]))

\* Every lookup the next iteration of the search loop makes is defined: the
\* cell on top of the heap is on the grid and has a cost, a predecessor and an
\* action cost.
LookupsDefined(sr) ==
  \A a \in sr.frontier :
    /\ InGrid(a[2], a[3])
    /\ <<a[2], a[3]>> \in DOMAIN sr.cost_so_far
    /\ <<a[2], a[3]>> \in DOMAIN sr.came_from
    /\ <<a[2], a[3]>> \in DOMAIN sr.action_cost

\* C22: find_path returns an empty plan, and never raises, whenever the start
\* or the goal is off the grid, the Manhattan distance from start to goal
\* exceeds 15, or the loop is left (node cap, frontier exhausted for an
\* unreachable goal, time limit) before the goal has been discovered.
EmptyPlanWhenAborted ==
  \A r \in Runs :
    /\ search[r].pc = "loop" => LookupsDefined(search[r])
    /\ search[r].pc = "done"
         /\ \/ OffGrid(query)
            \/ heuristic(query.start, query.goal) > 15
            \/ query.goal \notin DOMAIN search[r].came_from
       => search[r].path = << >> /\ search[r].actions = << >>

\* A call between two cells of the board that are more than 15 apart has returned.
FarGoalAnswered ==
  \E r \in Runs :
    /\ search[r].pc = "done"
    /\ ~OffGrid(query)
    /\ heuristic(query.start, query.goal) > 15

\* A step of a call of find_path.
FindPathStep == search' # search

\* C23: a call of find_path, whether it succeeds or aborts, leaves the grid
\* (fire, smoke, POIs, wall bits), the wall damage, the door table, the
\* counters and every firefighter's position, AP and carrying flag unchanged.
FindPathWritesNothing ==
  [][FindPathStep =>
       UNCHANGED << fire, smoke, poi, walls, wall_damage, door_states,
                    victims_lost, victims_rescued, damage_counters,
                    pos, ap, carrying >>]_vars

\* One call has been aborted after looking at cells and another has returned a path.
AbortedAndFound ==
  /\ search[1].pc = "done" /\ search[1].path = << >> /\ search[1].nodes_explored > 1
  /\ search[2].pc = "done" /\ search[2].path # << >>

\* C24 (as stated): get_neighbors has no edge that crosses a perimeter wall
\* segment: from an interior cell whose side toward the perimeter carries a
\* wall, no neighbour on the perimeter is offered, at any clearing cost.
NoEdgeAcrossPerimeterWall ==
  \A c \in Cells : \A direction \in Dirs :
    /\ ~is_perimeter(c[2], c[1])
    /\ Neighbour(c, direction) \in Cells
    /\ is_perimeter(Neighbour(c, direction)[2], Neighbour(c, direction)[1])
    /\ has_wall(World, c[1], c[2], direction)
    => \A e \in get_neighbors(World, <<c[2], c[1]>>) :
         <<e[2], e[1]>> # Neighbour(c, direction)

\* C25: every non-empty result of find_path starts at the start cell, ends at
\* the goal, has every consecutive pair of cells 4-adjacent, and comes with a
\* clearing-cost list of the same length whose entry for each hop is 0, 1 or 2
\* and is the cost get_neighbors gives the edge by which the cell is entered.
PlanWellFormed ==
  \A r \in Runs :
    search[r].pc = "done" /\ search[r].path # << >> =>
      /\ Len(search[r].actions) = Len(search[r].path)
      /\ search[r].path[1] = query.start
      /\ search[r].path[Len(search[r].path)] = query.goal
      /\ \A k \in 2..Len(search[r].path) :
           /\ heuristic(search[r].path[k - 1], search[r].path[k]) = 1
           /\ search[r].actions[k] \in 0..2
           /\ << search[r].path[k][1], search[r].path[k][2], search[r].actions[k] >>
                \in get_neighbors(World, search[r].path[k - 1])

\* A returned plan some hop of which needs a wall cut or a door opened.
PlanWithClearing ==
  \E r \in Runs :
    /\ search[r].pc = "done"
    /\ \E k \in DOMAIN search[r].actions : search[r].actions[k] > 0

\* The plans kept in the path caches of the planner-driven variant, which
\* find_path hands out again while none of their cells burns, have the same
\* shape (SpecStrat2).
CachedPlansWellFormed ==
  \A i \in FF : \A key \in DOMAIN path_cache[i] :
    /\ Len(path_cache[i][key].actions) = Len(path_cache[i][key].path)
    /\ path_cache[i][key].path[1] = key[1]
    /\ path_cache[i][key].path[Len(path_cache[i][key].path)] = key[2]
    /\ \A k \in 2..Len(path_cache[i][key].path) :
         /\ heuristic(path_cache[i][key].path[k - 1], path_cache[i][key].path[k]) = 1
         /\ path_cache[i][key].actions[k] \in 0..2

\* The keys under which the doors on the four sides of cell c are kept.
DoorsAround(c) ==
  UNION { compute_door_positions({p}) : p \in { p \in scenario.doors : p[1] = c \/ p[2] = c } }

\* C26 (as stated): when a burning cell explodes, every door on any of the four
\* sides of the origin cell that is still open or closed is removed from the
\* door table, whichever of the two bordering cells it is keyed on.
ExplosionDestroysDoorsAround ==
  \A c \in fire :
    ~is_perimeter(c[2], c[1]) =>
      \A door \in DoorsAround(c) :
        door \notin DOMAIN Explosion(World, c[1], c[2], 0).door_states

\* The key under which the door between cell c and its neighbour in a direction
\* is kept, if there is one (a set of at most one key).
DoorBetween(c, direction) ==
  { k \in DOMAIN door_states :
      k \in compute_door_positions({ << c, Neighbour(c, direction) >>,
                                     << Neighbour(c, direction), c >> }
                                   \cap scenario.doors) }

\* The effects a ray has on the cell it enters: a victim there is lost and the
\* cell burns afterwards.
CellEffectsApplied(after, n) ==
  /\ n \in after.fire
  /\ n \notin after.smoke
  /\ (n \in DOMAIN poi /\ poi[n] = "v") =>
       (n \notin DOMAIN after.poi /\ after.victims_lost > victims_lost)

\* C27 (as stated, for bombers_strat2.py): when an explosion ray meets a door
\* between the cell it stands on and the next one, the door is destroyed and
\* the ray enters the next cell and applies the cell effects there.
RayBreaksDoorAndEnters ==
  \A c \in Cells : \A direction \in Dirs :
    RayStands(c, direction) /\ DoorBetween(c, direction) # {} =>
      /\ DoorBetween(c, direction)
           \cap DOMAIN ExplosionRay_s2(World, c[2], c[1], direction).door_states = {}
      /\ CellEffectsApplied(ExplosionRay_s2(World, c[2], c[1], direction),
                            Neighbour(c, direction))

\* The same for the ray of bombers.py and the doors kept under a key of the
\* cell the ray stands on (the doors on its east and south sides): it holds.
RayBreaksKeyedDoorAndEnters ==
  \A c \in Cells : \A direction \in Dirs :
    /\ RayStands(c, direction)
    /\ <<c[1], c[2], direction>> \in DoorBetween(c, direction)
    /\ ~has_wall(World, c[1], c[2], direction)
    => /\ DoorBetween(c, direction)
            \cap DOMAIN ExplosionRay(World, c[2], c[1], direction).door_states = {}
       /\ CellEffectsApplied(ExplosionRay(World, c[2], c[1], direction),
                             Neighbour(c, direction))

\* The same for the ray of bombers.py and every door: it fails for the doors
\* on the north and west sides of the cell the ray stands on.
RayBreaksAnyDoorAndEnters ==
  \A c \in Cells : \A direction \in Dirs :
    RayStands(c, direction) /\ DoorBetween(c, direction) # {} =>
      /\ DoorBetween(c, direction)
           \cap DOMAIN ExplosionRay(World, c[2], c[1], direction).door_states = {}
      /\ CellEffectsApplied(ExplosionRay(World, c[2], c[1], direction),
                            Neighbour(c, direction))

\* The cell k steps away from cell c in a direction, as <<row, column>>.
Ahead(c, direction, k) ==
  << c[1] + k * DIRECTIONS[direction + 1][2], c[2] + k * DIRECTIONS[direction + 1][1] >>

\* Cell n lies ahead of c and every cell between them burns.
BehindFire(c, direction, n) ==
  \E k \in 1..Cols :
    /\ n = Ahead(c, direction, k)
    /\ \A j \in 1..(k - 1) : Ahead(c, direction, j) \in fire

\* Some wall was hit and is left damaged, not destroyed.
WallHeld(after) ==
  \E k \in DOMAIN after.wall_damage :
    /\ after.wall_damage[k] = Damage(k) + 1
    /\ after.wall_damage[k] < 2

\* C28: every explosion ray and every shockwave terminates (their results are
\* defined, and a ray only adds to the fire), and a single shockwave turns at
\* most one previously non-burning cell to fire: it passes over cells already
\* on fire and halts at the first non-burning cell, which it ignites, at an
\* intact wall it damages without destroying, or at the perimeter.
ShockwaveIgnitesOnce ==
  \A c \in fire : \A direction \in Dirs :
    ~is_perimeter(c[2], c[1]) =>
      /\ fire \subseteq ExplosionRay(World, c[2], c[1], direction).fire
      /\ \E after \in { shockwave(World, c[1], c[2], direction) } :
           /\ fire \subseteq after.fire
           /\ Cardinality(after.fire \ fire) <= 1
           /\ \A n \in after.fire \ fire : BehindFire(c, direction, n)
           /\ after.fire = fire =>
                \/ WallHeld(after)
                \/ \E n \in Cells : is_perimeter(n[2], n[1]) /\ BehindFire(c, direction, n)

\* An ignition roll on a burning cell has sent a ray onto a burning neighbour,
\* and the shockwave has set fire to a cell further on.
ShockwaveLitCell ==
  /\ prior.op = "roll"
  /\ \E c \in prior.m.fire : \E direction \in Dirs :
       /\ World = Explosion(prior.m, c[1], c[2], 0)
       /\ ~has_wall(prior.m, c[1], c[2], direction)
       /\ Ahead(c, direction, 1) \in prior.m.fire
       /\ \E k \in 2..Cols :
            /\ Ahead(c, direction, k) \in fire \ prior.m.fire
            /\ \A j \in 1..(k - 1) : Ahead(c, direction, j) \in prior.m.fire

\* Agent i, carrying a victim, completes a move onto an entry cell.
CarriedOntoEntry(i) ==
  /\ pc = "agents"
  /\ PoiCheck(World, i).carrying[i]
  /\ pos'[i] # pos[i]
  /\ is_entry(World, pos'[i][1], pos'[i][2])

\* C29 (as stated): whenever a firefighter carrying a victim completes a move
\* onto an entry cell, in that same action rescued increases by exactly 1 and
\* the firefighter's carrying flag becomes false (replenish_pois having run);
\* and no victim is counted as rescued in any other way than by a carrying
\* firefighter being on an entry cell.
MoveOntoEntryRescues ==
  [][/\ \A i \in FF :
          CarriedOntoEntry(i) =>
            /\ victims_rescued' = victims_rescued + 1
            /\ ~carrying'[i]
     /\ victims_rescued' # victims_rescued =>
          /\ victims_rescued' = victims_rescued + 1
          /\ \E i \in FF :
               /\ current = i \/ current' = i \/ i \in acted' \ acted
               /\ PoiCheck(World, i).carrying[i]
               /\ is_entry(World, pos'[i][1], pos'[i][2])]_vars

\* What does hold of the rescue of C29: a carried move onto an entry cell adds
\* exactly 1 to rescued, and rescued changes in no step other than one of a
\* carrying firefighter that ends on an entry cell.
MoveOntoEntryCounts ==
  [][/\ \A i \in FF :
          CarriedOntoEntry(i) => victims_rescued' = victims_rescued + 1
     /\ victims_rescued' # victims_rescued =>
          /\ victims_rescued' = victims_rescued + 1
          /\ \E i \in FF :
               /\ current = i \/ current' = i \/ i \in acted' \ acted
               /\ PoiCheck(World, i).carrying[i]
               /\ is_entry(World, pos'[i][1], pos'[i][2])]_vars

\* The deck the "Add new POIs" loop of replenish_pois starts from in a call on
\* model m: the deck of m, built first when the call finds it missing or empty.
DeckAtLoop(m) ==
  IF Len(m.scenario.pois) >= PoiTarget THEN m.mazo_pois ELSE DeckInit(m).mazo_pois

\* The tokens of type t the last call of replenish_pois placed: those added
\* to the active POIs, and the victims handed at once to a firefighter.
TokensPlaced(t) ==
  CountType(scenario.pois, t) - CountType(prior.m.scenario.pois, t)
    + (IF t = "v"
         THEN Cardinality({ i \in FF : carrying[i] /\ ~prior.m.carrying[i] })
         ELSE 0)

\* C30 (as stated): within one run of replenish_pois the deck size before the
\* run equals the deck size after it plus the number of tokens placed.
DeckConservedFromEntry ==
  prior.op = "replenish" =>
    DeckSize(prior.m.mazo_pois)
      = DeckSize(mazo_pois) + TokensPlaced("v") + TokensPlaced("f")

\* C30 (amended): within one run of replenish_pois every token drawn is placed
\* on the board, picked up at once by a firefighter standing there, or
\* returned to the deck: for victims and for false alarms, the deck the run
\* starts drawing from (built by the run itself when it was missing or empty)
\* holds what the deck holds afterwards plus the tokens placed.
TokensConserved ==
  prior.op = "replenish" =>
    \A t \in {"v", "f"} : DeckAtLoop(prior.m)[t] = mazo_pois[t] + TokensPlaced(t)

\* A run of replenish_pois that built the deck, put a token on the board and
\* handed a victim to a firefighter.
DeckBuiltAndDrawn ==
  /\ prior.op = "replenish"
  /\ DeckSize(prior.m.mazo_pois) = 0
  /\ Len(scenario.pois) > Len(prior.m.scenario.pois)
  /\ \E i \in FF : carrying[i] /\ ~prior.m.carrying[i]

\* A run of replenish_pois on a deck built by an earlier run.
DrawnFromStandingDeck ==
  /\ prior.op = "replenish"
  /\ DeckSize(prior.m.mazo_pois) > 0
  /\ DeckSize(mazo_pois) < DeckSize(prior.m.mazo_pois)

\* A run of replenish_pois that drew a token, found no cell for it and
\* returned it to the deck.
TokenReturned ==
  /\ prior.op = "replenish"
  /\ Len(prior.m.scenario.pois) < PoiTarget
  /\ DeckSize(DeckAtLoop(prior.m)) > 0
  /\ \A t \in {"v", "f"} : AcceptingCells(prior.m, t) = {}
  /\ mazo_pois = DeckAtLoop(prior.m)
  /\ scenario.pois = prior.m.scenario.pois

(***************************************************************************)
(* The turn machine of bombers.py late in a run: the deck has been built   *)
(* at the first deficit and drawn down to its last tokens, a turn is being *)
(* processed and the firefighter's step is about to run.                   *)
(***************************************************************************)
\* The turn that is being processed.
LateTurn == 20
\* Tokens of either type still in the deck.
MaxLateDeck == 1
\* Victims rescued and lost so far.
LateRescued == 5
LateLost == 2

\* The active POIs of the late states explored.
LatePois ==
  { << <<2, 4, "v">>, <<5, 1, "f">> >>,
    << <<2, 4, "v">>, <<5, 1, "f">>, <<5, 8, "v">> >>,
    << <<1, 6, "v">>, <<5, 8, "v">> >> }

\* Where the firefighter stands in them (mesa positions <<x, y>>); never on
\* a cell that holds a POI.
LatePositions == { <<5, 2>>, <<6, 1>>, <<6, 2>> }

\* The doors explosions have destroyed by then: none, or the door east of <<2, 5>>.
LateDestroyed == { {}, { <<2, 5, 1>> } }

\* FireRescueModel on the repository's scenario, LateTurn turns into the run.
InitLate ==
  /\ NoPlanner /\ NoPlans
  /\ \E pois \in LatePois, p \in LatePositions, c \in BOOLEAN,
        v \in 0..MaxLateDeck, f \in 0..MaxLateDeck, gone \in LateDestroyed :
       /\ scenario = [ doors |-> scenario_content.doors,
                       entries |-> scenario_content.entries, pois |-> pois ]
       /\ poi = [ cell \in { <<q[1], q[2]>> : q \in Range(pois) } |->
                    pois[CHOOSE k \in DOMAIN pois : <<pois[k][1], pois[k][2]>> = cell][3] ]
       /\ pos = [ i \in FF |-> p ]
       /\ carrying = [ i \in FF |-> c ]
       /\ v + f > 0
       /\ \A q \in Range(pois) : <<q[2], q[1]>> # p
       /\ mazo_pois = [ v |-> v, f |-> f ]
       /\ door_states = [ k \in compute_door_positions(scenario_content.doors) \ gone |->
                            "closed" ]
  /\ fire = scenario_content.fires
  /\ smoke = {}
  /\ walls = scenario_content.grid_walls
  /\ wall_damage = <<>>
  /\ victims_lost = LateLost
  /\ victims_rescued = LateRescued
  /\ damage_counters = 0
  /\ ap = [ i \in FF |-> MaxAp ]
  /\ assigned_entry = [ i \in FF |-> <<>> ]
  /\ simulation_over = FALSE
  /\ step_count = LateTurn
  /\ stage = 1
  /\ pc = "agents"
  /\ current = 0
  /\ acted = {}
  /\ phases = <<>>
  /\ refused = 0
  /\ draws = 0
  /\ prior = [op |-> "none"]

\* The rest of the turn: step is not called again.
NextLate ==
  \/ \E i \in FF : AgentRescue(i)
  \/ \E i \in FF : AgentMove(i)
  \/ \E i \in FF : AgentFire(i)
  \/ \E i \in FF : AgentDoor(i)
  \/ \E i \in FF : AgentCut(i)
  \/ \E i \in FF : AgentPass(i)
  \/ AgentsDone
  \/ AdvanceFireRoll
  \/ AdvanceFireFlashover
  \/ CheckFirefighters
  \/ RecoverAp
  \/ ReplenishPois
  \/ CheckEnd

SpecLate == InitLate /\ [][NextLate]_vars

ActivePoisAtMostThree ==
  /\ Len(scenario.pois) <= PoiTarget
  /\ Cardinality(DOMAIN poi) <= PoiTarget
  /\ prior.op = "replenish" =>
       /\ Len(prior.m.scenario.pois) >= PoiTarget =>
            /\ scenario.pois = prior.m.scenario.pois
            /\ poi = prior.m.poi
            /\ mazo_pois = prior.m.mazo_pois
       /\ Len(prior.m.scenario.pois) + TokensPlaced("v") + TokensPlaced("f") <= PoiTarget

\* A call of replenish_pois found fewer than 3 active POIs and left 3.
RefilledToThree ==
  /\ prior.op = "replenish"
  /\ Len(prior.m.scenario.pois) < PoiTarget
  /\ Len(scenario.pois) = PoiTarget
  /\ Cardinality(DOMAIN poi) = PoiTarget

\* A call of replenish_pois found 3 active POIs.
CalledWithThree ==
  /\ prior.op = "replenish"
  /\ Len(prior.m.scenario.pois) = PoiTarget

BurningOn(m, path) == { k \in DOMAIN path : <<path[k][2], path[k][1]>> \in m.fire }

\* The keys of agent i's cache find_path can be called with now: those that
\* start on the agent's cell, while its step is still to run or running.
CallableKeys(i) ==
  IF pc = "agents" /\ i \notin acted
    THEN { key \in DOMAIN path_cache[i] : key[1] = pos[i] }
    ELSE {}

\* C34: find_path never returns a cached path that contains a cell on fire:
\* called for a key of the agent's cache, it returns the cached path only if
\* no cell of it burns, and otherwise what a search without a cache returns.
CachedPathOffFire ==
  \A i \in FF : \A key \in CallableKeys(i) :
    \A r \in { find_path(World, path_cache[i], key[1], key[2], FALSE) } :
      IF BurningOn(World, path_cache[i][key].path) = {}
        THEN /\ r.path = path_cache[i][key].path
             /\ r.actions = path_cache[i][key].actions
        ELSE \A fresh \in { find_path(World, << >>, key[1], key[2], FALSE) } :
               /\ r.path = fresh.path
               /\ r.actions = fresh.actions

\* The agent holds a cached path on which a cell has caught fire since.
CachedPathCaughtFire ==
  \E i \in FF : \E key \in CallableKeys(i) :
    BurningOn(World, path_cache[i][key].path) # {}

\* The agent holds a cached path on which nothing burns.
CachedPathStillClear ==
  \E i \in FF : \E key \in CallableKeys(i) :
    BurningOn(World, path_cache[i][key].path) = {}

\* C35: a physical wall between two interior cells takes at most 2 points of
\* damage over a run, the hits recorded from its two sides counted together:
\* a wall that has been hit twice, from whichever sides, is destroyed (its
\* bit is cleared on both cells), so a wall hit once from each side is gone.
WallHitsCountedTogether ==
  \A k \in DOMAIN wall_damage :
    (~PerimeterSegment(k) /\ Damage(k) + Damage(MirrorKey(k)) >= 2)
      => (k \notin walls /\ MirrorKey(k) \notin walls)

OnRing(c) == c[1] = 0 \/ c[1] = Rows - 1 \/ c[2] = 0 \/ c[2] = Cols - 1

\* C37: no perimeter cell ever holds fire or smoke; in particular the safe
\* cell of the knockdown never burns, so a firefighter standing on it is not
\* among those the knockdown check finds on fire.
PerimeterNeverBurns ==
  /\ \A c \in fire \cup smoke : ~OnRing(c)
  /\ \A i \in FF : pos[i] = ambulance_pos => i \notin InjuredFirefighters(World)

\* The knockdown check has run with a firefighter on the safe cell while a
\* cell next to the ring was burning, and has left the firefighter there.
SafeCellHeld ==
  /\ prior.op = "knockdown"
  /\ \E i \in FF : prior.m.pos[i] = ambulance_pos /\ pos[i] = ambulance_pos
  /\ \E c \in fire : \E direction \in Dirs :
       /\ Neighbour(c, direction) \in Cells
       /\ OnRing(Neighbour(c, direction))
       /\ can_pass_wall(World, c[1], c[2], direction)

\* C38: no cell ever holds both fire and a victim POI (the scenarios start
\* without a victim on a burning cell).
NoVictimOnFire ==
  /\ \A c \in fire : ~(c \in DOMAIN poi /\ poi[c] = "v")
  /\ prior.op \in {"roll", "flashover"} =>
       \A c \in fire \ prior.m.fire :
         (c \in DOMAIN prior.m.poi /\ prior.m.poi[c] = "v") =>
           /\ c \notin DOMAIN poi
           /\ victims_lost > prior.m.victims_lost
  /\ prior.op = "replenish" =>
       \A c \in DOMAIN poi \ DOMAIN prior.m.poi : c \notin fire

\* A phase of advance_fire has set a victim's cell on fire: the victim is gone
\* from the cell and counted lost.
VictimLostToFire ==
  /\ prior.op \in {"roll", "flashover"}
  /\ \E c \in fire \ prior.m.fire :
       /\ c \in DOMAIN prior.m.poi /\ prior.m.poi[c] = "v"
       /\ c \notin DOMAIN poi
       /\ victims_lost = prior.m.victims_lost + 1

\* replenish_pois has put a victim on a cell that was burning, and the cell
\* no longer burns.
VictimPlacedOnFire ==
  /\ prior.op = "replenish"
  /\ \E c \in prior.m.fire :
       /\ c \notin DOMAIN prior.m.poi
       /\ c \in DOMAIN poi /\ poi[c] = "v"
       /\ c \notin fire

\* C39: a knocked-down firefighter is not removed from play: when its step
\* runs in a later turn of a run that is not over, with action points to
\* spend, there is at least one legal movement from the safe cell.
KnockedDownCanReturn ==
  \A i \in FF :
    (pos[i] = ambulance_pos /\ Choosing(i) /\ ~simulation_over /\ ap[i] >= 2)
      => Movements(World, i) # {}

\* What the code does instead: from the safe cell no movement is ever legal
\* (both neighbours inside the grid are perimeter cells that are no entries),
\* and no step moves a firefighter off it.
NoMovementFromSafeCell ==
  \A i \in FF : pos[i] = ambulance_pos => Movements(World, i) = {}

StaysOnSafeCell ==
  [][\A i \in FF : pos[i] = ambulance_pos => pos'[i] = ambulance_pos]_vars

\* A knocked-down firefighter's step runs in the next turn with its action
\* points recovered.
KnockedDownActsAgain ==
  \E i \in FF : pos[i] = ambulance_pos /\ Choosing(i) /\ ap[i] >= 2


=============================================================================
